---------------------------- MODULE Spec2Model ----------------------------
(***************************************************************************)
(* Verification model of the trusera-agent-sdk core:                       *)
(*   - the event telemetry client (trusera_sdk/client.py): queue, batched  *)
(*     flush, background flush loop, close();                              *)
(*   - the enforcement contract and the install()/uninstall() call gates   *)
(*     (trusera_sdk/integrations/*_interceptor.py);                        *)
(*   - the policy cache and its rule evaluator (trusera_sdk/policy_cache,  *)
(*     trusera_sdk/cedar), whose observable contract is fixed by           *)
(*     tests/test_policy_cache.py and the design document.                 *)
(* Three specifications share the variables: SpecClient, SpecGate and      *)
(* SpecCache; each leaves the other components in their initial state.     *)
(***************************************************************************)
EXTENDS Integers, Sequences, FiniteSets, TLC

\* ------------------------------------------------------------------ bounds
\* Number of events the callers may create in one run.
MaxEvents == 3
\* The batch_size constructor argument (default 100), scaled down.
BatchSize == 2

\* ------------------------------------------------------------- vocabulary
Callers  == {"c1", "c2"}
Flusher  == "flusher"
Threads  == Callers \cup {Flusher}
EventIds == 1..MaxEvents

\* Outcomes of building the payload and POSTing it (client.py:209-222):
\*   "ok"         the POST returned and raise_for_status() passed;
\*   "http_error" an httpx.HTTPError (transport error or error status);
\*   "other"      any exception that is not an httpx.HTTPError (a TypeError
\*                from JSON-encoding the payload, httpx.InvalidURL, the
\*                RuntimeError httpx raises on a closed client, ...).
PostOutcomes == {"ok", "http_error", "other"}

\* Event objects.  NoEvent marks an unused id.
NoEvent == [type |-> "none", action |-> "", target |-> "", reason |-> "",
            enforcement |-> ""]
PlainEvent == [type |-> "TOOL_CALL", action |-> "", target |-> "",
               reason |-> "", enforcement |-> ""]

VARIABLES
    \* ---- TruseraClient
    queue,      \* self._queue: FIFO of event ids
    agent_id,   \* self._agent_id is set
    shutdown,   \* self._shutdown.is_set()
    httpClosed, \* self._client.close() has run
    pc,         \* position of every thread
    ret,        \* where the flush() a thread is running returns to
    batch,      \* events_to_send of the flush() a thread is running (in
                \* the re-queue loop: the part not yet put back)
    cur,        \* the event a thread's track() is handling (0: none)
    tret,       \* where the track() a thread is running returns to
    evInfo,     \* the Event object behind every event id
    raised,     \* the exception that ended a thread's last operation
    enq,        \* events that track() has put on the queue
    delivered,  \* per event, the number of successful POSTs that carried it
    nextEv,     \* next unused event id
    hist        \* history of the run: which threads have used the client
                \* and how (see After), and whether every POST succeeded

clientVars == <<queue, agent_id, shutdown, httpClosed, pc, ret, batch,
                cur, tret, evInfo, raised, enq, delivered, nextEv, hist>>

VARIABLES
    \* ---- interceptors (crewai / langchain / autogen call gates)
    mode,       \* self.enforcement of every interceptor
    hasClient,  \* self._client is set
    hasCache,   \* self._cache is set
    patchable,  \* the framework class has the attribute install() patches
                \* (hasattr(_ConversableAgent, "_execute_function"))
    installed,  \* self._installed
    saved,      \* self._orig_tool_run, self._orig_llm_generate, ...: the
                \* implementation found at each site by install()
    callSite,   \* the patched class attributes (BaseTool._run,
                \* BaseLLM._generate, ...): what each one holds
    g           \* the call through the call site that is in progress, or
                \* the last one that ended

gateVars ==
    <<mode, hasClient, hasCache, patchable, installed, saved, callSite, g>>

VARIABLES
    \* ---- PolicyCache
    hasSource,    \* the cache was constructed with a remote source
    now,          \* the clock
    remote,       \* the policies the remote authority currently serves
    evaluator,    \* the stored CompiledEvaluator
    policy_hash,  \* the stored PolicySet hash
    last_refresh, \* last_successful_refresh_time
    nextObj,      \* identity of the next evaluator object to be built
    cpc,          \* position of every thread that can run refresh_once()
    fetched,      \* per such thread, the policy list its fetch returned
    ev            \* the evaluate() call in progress, or the last one ended

cacheVars == <<hasSource, now, remote, evaluator, policy_hash, last_refresh,
               nextObj, cpc, fetched, ev>>

VARIABLES
    \* ---- scoped use of an interceptor (with interceptor: ...)
    scope,        \* the with-block: not entered, running, or left, and how
    \* ---- wrapped model client (TruseraLLMInterceptor)
    llm,          \* the wrapped create() call in progress, or the last one
    \* ---- network-level interceptor (TruseraInterceptor)
    exclude_patterns,  \* the configured exclusion patterns
    net           \* the outbound request in progress, or the last one

wrapVars == <<scope, llm, exclude_patterns, net>>

VARIABLES
    \* ---- construction of the client, fleet registration and heartbeat
    args,            \* the arguments TruseraClient() was called with
    env,             \* the TRUSERA_* environment variables
    conf,            \* the configuration __init__ stored
    log,             \* the warnings logged by __init__
    reg,             \* how the fleet registration request ended
    fleet_agent_id,  \* self._fleet_agent_id is set
    hb               \* the heartbeat thread

fleetVars == <<args, env, conf, log, reg, fleet_agent_id, hb>>

\* ------------------------------------------------------------- helpers
SeqToSet(s) == {s[i] : i \in 1..Len(s)}

\* ---------------------------------------------------- history of a run
\* The caller whose single-threaded use of the client the history follows.
SoloCaller == "c1"

\* hist.only says what has happened since construction:
\*   "start"  nothing;
\*   "batch"  SoloCaller called set_agent_id() first and has since called
\*            nothing but track(); no other thread has flushed;
\*   "solo"   only SoloCaller has called the client; the flush thread has
\*            done nothing but react to the shutdown signal;
\*   "any"    anything else.
\* In a run that is not "any", hist.ok says that every POST succeeded, and
\* hist.atClose whether the agent id was set when close() was called
\* ("none": close() was not called).

\* The history after thread t has taken a step of operation op; sent is
\* FALSE for a step in which a POST failed.
After(t, op, sent) ==
    LET only ==
          IF t # SoloCaller \/ hist.only = "any" THEN "any"
          ELSE IF op \in {"track", "inner"}
                 THEN (IF hist.only = "start" /\ op = "track" THEN "solo"
                       ELSE hist.only)
          ELSE IF op = "set_agent_id" /\ hist.only \in {"start", "batch"}
                 THEN "batch"
          ELSE "solo"
    IN  [only |-> only,
         ok |-> only # "any" /\ hist.ok /\ sent,
         atClose |-> IF only = "any" THEN "none"
                     ELSE IF op = "close" /\ ~shutdown
                            THEN (IF agent_id THEN "agent" ELSE "no_agent")
                     ELSE hist.atClose]

\* ================================================================
\*                      TruseraClient
\* ================================================================

\* State after TruseraClient.__init__ (auto_register off): empty queue, no
\* agent id, shutdown clear, flush thread started.
ClientInit ==
    /\ queue = <<>>
    /\ agent_id = FALSE
    /\ shutdown = FALSE
    /\ httpClosed = FALSE
    /\ pc = [t \in Threads |-> IF t = Flusher THEN "loop_top" ELSE "idle"]
    /\ ret = [t \in Threads |-> "none"]
    /\ batch = [t \in Threads |-> <<>>]
    /\ cur = [t \in Threads |-> 0]
    /\ tret = [t \in Threads |-> "none"]
    /\ evInfo = [e \in EventIds |-> NoEvent]
    /\ raised = [t \in Threads |-> "none"]
    /\ enq = {}
    /\ delivered = [e \in EventIds |-> 0]
    /\ nextEv = 1
    /\ hist = [only |-> "start", ok |-> TRUE, atClose |-> "none"]

\* set_agent_id(): stores the id under the lock.
set_agent_id(t) ==
    /\ UNCHANGED <<gateVars, cacheVars, fleetVars, wrapVars>>
    /\ hist' = After(t, "set_agent_id", TRUE)
    /\ pc[t] = "idle"
    /\ agent_id' = TRUE
    /\ raised' = [raised EXCEPT ![t] = "none"]
    /\ UNCHANGED <<queue, shutdown, httpClosed, pc, ret, batch, cur, tret,
                   evInfo, enq, delivered, nextEv>>

\* Where a thread continues when its track() returns normally: at the
\* caller, in the _enforce() that called it, or in the wrapped model
\* invocation that called it (through _enforce() or _log_llm_event()).
AfterTrack(t) ==
    CASE tret[t] = "enforce"  -> "enf_mode"
      [] tret[t] = "llm_pre"  -> "llm_pre_mode"
      [] tret[t] = "llm_log"  -> "llm_tools"
      [] tret[t] = "llm_tool" -> "llm_tool_mode"
      [] tret[t] = "net"      -> "net_mode"
      [] OTHER                -> "idle"

TrackEnter_noShutdownTest(t, info, back, from) ==
    /\ nextEv <= MaxEvents
    /\ nextEv' = nextEv + 1
    /\ hist' = After(t, "track", TRUE)
    /\ evInfo' = [evInfo EXCEPT ![nextEv] = info]
    /\ pc' = [pc EXCEPT ![t] = "track_put"]
    /\ cur' = [cur EXCEPT ![t] = nextEv]
    /\ tret' = [tret EXCEPT ![t] = back]
    /\ UNCHANGED <<queue, agent_id, shutdown, httpClosed, ret, batch, enq,
                   delivered>>

\* track(event), first statement: the shutdown test.  A set signal drops
\* the event and track() returns; otherwise the thread goes on to the put.
\* `back` is "caller" or "enforce", `from` the pc track() returns to when
\* the event is dropped.
TrackEnter(t, info, back, from) ==
    /\ nextEv <= MaxEvents
    /\ nextEv' = nextEv + 1
    /\ hist' = After(t, "track", TRUE)
    /\ evInfo' = [evInfo EXCEPT ![nextEv] = info]
    /\ IF shutdown
         THEN /\ pc' = [pc EXCEPT ![t] = from]
              /\ UNCHANGED <<cur, tret>>
         ELSE /\ pc' = [pc EXCEPT ![t] = "track_put"]
              /\ cur' = [cur EXCEPT ![t] = nextEv]
              /\ tret' = [tret EXCEPT ![t] = back]
    /\ UNCHANGED <<queue, agent_id, shutdown, httpClosed, ret, batch, enq,
                   delivered>>

\* A caller's track(event).
track_call(t) ==
    /\ UNCHANGED <<gateVars, cacheVars, fleetVars, wrapVars>>
    /\ pc[t] = "idle"
    /\ raised' = [raised EXCEPT ![t] = "none"]
    /\ TrackEnter(t, PlainEvent, "caller", "idle")

\* track(): self._queue.put(event).
track_put(t) ==
    /\ UNCHANGED <<gateVars, cacheVars, fleetVars, wrapVars>>
    /\ hist' = After(t, "inner", TRUE)
    /\ pc[t] = "track_put"
    /\ queue' = Append(queue, cur[t])
    /\ enq' = enq \cup {cur[t]}
    /\ pc' = [pc EXCEPT ![t] = "track_size"]
    /\ UNCHANGED <<agent_id, shutdown, httpClosed, ret, batch, cur, tret,
                   evInfo, raised, delivered, nextEv>>

track_size_above(t) ==
    /\ UNCHANGED <<gateVars, cacheVars, fleetVars, wrapVars>>
    /\ hist' = After(t, "inner", TRUE)
    /\ pc[t] = "track_size"
    /\ IF Len(queue) > BatchSize
         THEN /\ pc' = [pc EXCEPT ![t] = "flush_check"]
              /\ ret' = [ret EXCEPT ![t] = "track"]
              /\ UNCHANGED <<cur, tret>>
         ELSE /\ pc' = [pc EXCEPT ![t] = AfterTrack(t)]
              /\ cur' = [cur EXCEPT ![t] = 0]
              /\ tret' = [tret EXCEPT ![t] = "none"]
              /\ UNCHANGED ret
    /\ UNCHANGED <<queue, agent_id, shutdown, httpClosed, batch, evInfo,
                   raised, enq, delivered, nextEv>>

\* track(): if self._queue.qsize() >= self.batch_size: self.flush().
track_size(t) ==
    /\ UNCHANGED <<gateVars, cacheVars, fleetVars, wrapVars>>
    /\ hist' = After(t, "inner", TRUE)
    /\ pc[t] = "track_size"
    /\ IF Len(queue) >= BatchSize
         THEN /\ pc' = [pc EXCEPT ![t] = "flush_check"]
              /\ ret' = [ret EXCEPT ![t] = "track"]
              /\ UNCHANGED <<cur, tret>>
         ELSE /\ pc' = [pc EXCEPT ![t] = AfterTrack(t)]
              /\ cur' = [cur EXCEPT ![t] = 0]
              /\ tret' = [tret EXCEPT ![t] = "none"]
              /\ UNCHANGED ret
    /\ UNCHANGED <<queue, agent_id, shutdown, httpClosed, batch, evInfo,
                   raised, enq, delivered, nextEv>>

\* An explicit flush() call by a caller.
flush_call(t) ==
    /\ UNCHANGED <<gateVars, cacheVars, fleetVars, wrapVars>>
    /\ hist' = After(t, "flush", TRUE)
    /\ pc[t] = "idle"
    /\ pc' = [pc EXCEPT ![t] = "flush_check"]
    /\ ret' = [ret EXCEPT ![t] = "flush"]
    /\ raised' = [raised EXCEPT ![t] = "none"]
    /\ UNCHANGED <<queue, agent_id, shutdown, httpClosed, batch, cur, tret,
                   evInfo, enq, delivered, nextEv>>

\* Where a thread continues when its flush() returns normally.
AfterFlush(t) ==
    CASE ret[t] = "track" -> AfterTrack(t)
      [] ret[t] = "flush" -> "idle"
      [] ret[t] = "loop"  -> "loop_top"
      [] ret[t] = "close" -> "close_release"
      [] OTHER            -> "idle"

\* Where a thread ends up when its flush() raises: the exception leaves
\* track(), flush() or close() and reaches the caller (through _enforce()
\* when that called track()); in the flush thread it leaves _flush_loop and
\* ends the thread.
AfterRaise(t) ==
    IF t = Flusher THEN "dead"
    ELSE IF ret[t] = "track" /\ tret[t] = "enforce" THEN "enf_raise"
    ELSE IF ret[t] = "track" /\ tret[t] \in {"llm_pre", "llm_log", "llm_tool"}
      THEN "llm_raise"
    ELSE IF ret[t] = "track" /\ tret[t] = "net" THEN "net_raise"
    ELSE "idle"

\* flush() returns: its frame, and that of a track() that called it, end.
FlushReturn(t) ==
    /\ pc' = [pc EXCEPT ![t] = AfterFlush(t)]
    /\ ret' = [ret EXCEPT ![t] = "none"]
    /\ cur' = [cur EXCEPT ![t] = 0]
    /\ tret' = [tret EXCEPT ![t] = "none"]

flush_check_noAgentTest(t) ==
    /\ UNCHANGED <<gateVars, cacheVars, fleetVars, wrapVars>>
    /\ hist' = After(t, "inner", TRUE)
    /\ pc[t] = "flush_check"
    /\ pc' = [pc EXCEPT ![t] = "drain"]
    /\ batch' = [batch EXCEPT ![t] = <<>>]
    /\ UNCHANGED <<ret, cur, tret>>
    /\ UNCHANGED <<queue, agent_id, shutdown, httpClosed, evInfo, raised,
                   enq, delivered, nextEv>>

\* flush(): the agent-id test, then events_to_send = [].
flush_check(t) ==
    /\ UNCHANGED <<gateVars, cacheVars, fleetVars, wrapVars>>
    /\ hist' = After(t, "inner", TRUE)
    /\ pc[t] = "flush_check"
    /\ IF ~agent_id
         THEN /\ FlushReturn(t)
              /\ UNCHANGED batch
         ELSE /\ pc' = [pc EXCEPT ![t] = "drain"]
              /\ batch' = [batch EXCEPT ![t] = <<>>]
              /\ UNCHANGED <<ret, cur, tret>>
    /\ UNCHANGED <<queue, agent_id, shutdown, httpClosed, evInfo, raised,
                   enq, delivered, nextEv>>

flush_drain_all(t) ==
    /\ UNCHANGED <<gateVars, cacheVars, fleetVars, wrapVars>>
    /\ hist' = After(t, "inner", TRUE)
    /\ pc[t] = "drain"
    /\ IF queue # <<>>
         THEN /\ batch' = [batch EXCEPT ![t] = Append(@, Head(queue))]
              /\ queue' = Tail(queue)
              /\ UNCHANGED <<pc, ret, cur, tret>>
         ELSE /\ UNCHANGED <<batch, queue>>
              /\ IF batch[t] = <<>>
                   THEN FlushReturn(t)
                   ELSE /\ pc' = [pc EXCEPT ![t] = "post"]
                        /\ UNCHANGED <<ret, cur, tret>>
    /\ UNCHANGED <<agent_id, shutdown, httpClosed, evInfo, raised, enq,
                   delivered, nextEv>>

\* flush(): one turn of the drain loop.  get_nowait() takes the head of the
\* queue; the loop ends when the batch is full or the queue is Empty, and
\* an empty batch returns without a request.
flush_drain(t) ==
    /\ UNCHANGED <<gateVars, cacheVars, fleetVars, wrapVars>>
    /\ hist' = After(t, "inner", TRUE)
    /\ pc[t] = "drain"
    /\ IF Len(batch[t]) < BatchSize /\ queue # <<>>
         THEN /\ batch' = [batch EXCEPT ![t] = Append(@, Head(queue))]
              /\ queue' = Tail(queue)
              /\ UNCHANGED <<pc, ret, cur, tret>>
         ELSE /\ UNCHANGED <<batch, queue>>
              /\ IF batch[t] = <<>>
                   THEN FlushReturn(t)
                   ELSE /\ pc' = [pc EXCEPT ![t] = "post"]
                        /\ UNCHANGED <<ret, cur, tret>>
    /\ UNCHANGED <<agent_id, shutdown, httpClosed, evInfo, raised, enq,
                   delivered, nextEv>>

\* The outcomes the send can have: a closed httpx client raises a
\* RuntimeError, which is not an httpx.HTTPError.
Outcomes == IF httpClosed THEN {"other"} ELSE PostOutcomes

\* The outcomes flush() catches: except httpx.HTTPError.
Caught == {"http_error"}

\* flush(): build the payload and POST it.  Success logs; a caught error
\* goes to the re-queue loop; anything else propagates, events_to_send
\* going out of scope with the frame.
flush_post(t) ==
    /\ UNCHANGED <<gateVars, cacheVars, fleetVars, wrapVars>>
    /\ pc[t] = "post"
    /\ \E o \in Outcomes :
         /\ hist' = After(t, "inner", o = "ok")
         /\ CASE o = "ok" ->
                   /\ delivered' = [e \in EventIds |->
                                      IF e \in SeqToSet(batch[t])
                                        THEN delivered[e] + 1 ELSE delivered[e]]
                   /\ batch' = [batch EXCEPT ![t] = <<>>]
                   /\ FlushReturn(t)
                   /\ UNCHANGED raised
              [] o \in Caught ->
                   /\ pc' = [pc EXCEPT ![t] = "requeue"]
                   /\ UNCHANGED <<batch, ret, cur, tret, raised, delivered>>
              [] OTHER ->
                   /\ batch' = [batch EXCEPT ![t] = <<>>]
                   /\ pc' = [pc EXCEPT ![t] = AfterRaise(t)]
                   /\ raised' = [raised EXCEPT ![t] = ret[t]]
                   /\ ret' = [ret EXCEPT ![t] = "none"]
                   /\ cur' = [cur EXCEPT ![t] = 0]
                   /\ tret' = [tret EXCEPT ![t] = "none"]
                   /\ UNCHANGED delivered
    /\ UNCHANGED <<queue, agent_id, shutdown, httpClosed, evInfo, enq,
                   nextEv>>

flush_requeue_twice(t) ==
    /\ UNCHANGED <<gateVars, cacheVars, fleetVars, wrapVars>>
    /\ hist' = After(t, "inner", TRUE)
    /\ pc[t] = "requeue"
    /\ IF batch[t] # <<>>
         THEN /\ queue' = Append(Append(queue, Head(batch[t])), Head(batch[t]))
              /\ batch' = [batch EXCEPT ![t] = Tail(@)]
              /\ UNCHANGED <<pc, ret, cur, tret>>
         ELSE /\ FlushReturn(t)
              /\ UNCHANGED <<queue, batch>>
    /\ UNCHANGED <<agent_id, shutdown, httpClosed, evInfo, raised, enq,
                   delivered, nextEv>>

\* flush(): the except branch, for event in events_to_send: queue.put(event).
\* flush() returns after the last put.
flush_requeue(t) ==
    /\ UNCHANGED <<gateVars, cacheVars, fleetVars, wrapVars>>
    /\ hist' = After(t, "inner", TRUE)
    /\ pc[t] = "requeue"
    /\ IF batch[t] # <<>>
         THEN /\ queue' = Append(queue, Head(batch[t]))
              /\ batch' = [batch EXCEPT ![t] = Tail(@)]
              /\ UNCHANGED <<pc, ret, cur, tret>>
         ELSE /\ FlushReturn(t)
              /\ UNCHANGED <<queue, batch>>
    /\ UNCHANGED <<agent_id, shutdown, httpClosed, evInfo, raised, enq,
                   delivered, nextEv>>

\* _flush_loop: the while test.
loop_top ==
    /\ UNCHANGED <<gateVars, cacheVars, fleetVars, wrapVars>>
    /\ UNCHANGED hist
    /\ pc[Flusher] = "loop_top"
    /\ pc' = [pc EXCEPT ![Flusher] = IF shutdown THEN "exited" ELSE "sleeping"]
    /\ UNCHANGED <<queue, agent_id, shutdown, httpClosed, ret, batch, cur,
                   tret, evInfo, raised, enq, delivered, nextEv>>

loop_wake_noSecondTest ==
    /\ UNCHANGED <<gateVars, cacheVars, fleetVars, wrapVars>>
    /\ hist' = After(Flusher, "inner", TRUE)
    /\ pc[Flusher] = "sleeping"
    /\ pc' = [pc EXCEPT ![Flusher] = "flush_check"]
    /\ ret' = [ret EXCEPT ![Flusher] = "loop"]
    /\ UNCHANGED <<queue, agent_id, shutdown, httpClosed, batch, cur, tret,
                   evInfo, raised, enq, delivered, nextEv>>

\* _flush_loop: time.sleep(flush_interval) ends; the signal is tested again
\* and flush() is called when it is clear.
loop_wake ==
    /\ UNCHANGED <<gateVars, cacheVars, fleetVars, wrapVars>>
    /\ hist' = (IF shutdown THEN hist ELSE After(Flusher, "inner", TRUE))
    /\ pc[Flusher] = "sleeping"
    /\ IF shutdown
         THEN /\ pc' = [pc EXCEPT ![Flusher] = "loop_top"]
              /\ UNCHANGED ret
         ELSE /\ pc' = [pc EXCEPT ![Flusher] = "flush_check"]
              /\ ret' = [ret EXCEPT ![Flusher] = "loop"]
    /\ UNCHANGED <<queue, agent_id, shutdown, httpClosed, batch, cur, tret,
                   evInfo, raised, enq, delivered, nextEv>>

close_check_always(t) ==
    /\ UNCHANGED <<gateVars, cacheVars, fleetVars, wrapVars>>
    /\ hist' = After(t, "close", TRUE)
    /\ pc[t] = "idle"
    /\ raised' = [raised EXCEPT ![t] = "none"]
    /\ pc' = [pc EXCEPT ![t] = "close_set"]
    /\ UNCHANGED <<queue, agent_id, shutdown, httpClosed, ret, batch, cur,
                   tret, evInfo, enq, delivered, nextEv>>

\* close(): the idempotence test.
close_check(t) ==
    /\ UNCHANGED <<gateVars, cacheVars, fleetVars, wrapVars>>
    /\ hist' = After(t, "close", TRUE)
    /\ pc[t] = "idle"
    /\ raised' = [raised EXCEPT ![t] = "none"]
    /\ pc' = [pc EXCEPT ![t] = IF shutdown THEN "idle" ELSE "close_set"]
    /\ UNCHANGED <<queue, agent_id, shutdown, httpClosed, ret, batch, cur,
                   tret, evInfo, enq, delivered, nextEv>>

\* close(): self._shutdown.set().
close_set(t) ==
    /\ UNCHANGED <<gateVars, cacheVars, fleetVars, wrapVars>>
    /\ hist' = After(t, "inner", TRUE)
    /\ pc[t] = "close_set"
    /\ shutdown' = TRUE
    /\ pc' = [pc EXCEPT ![t] = "close_join"]
    /\ UNCHANGED <<queue, agent_id, httpClosed, ret, batch, cur, tret,
                   evInfo, raised, enq, delivered, nextEv>>

\* A variant of close() that releases the network client before its final
\* flush.
close_join_releaseFirst(t) ==
    /\ UNCHANGED <<gateVars, cacheVars, fleetVars, wrapVars>>
    /\ hist' = After(t, "inner", TRUE)
    /\ pc[t] = "close_join"
    /\ pc[Flusher] \in {"exited", "dead", "post"}
    /\ hb.pc \in {"unstarted", "exited", "post"}
    /\ httpClosed' = TRUE
    /\ pc' = [pc EXCEPT ![t] = "flush_check"]
    /\ ret' = [ret EXCEPT ![t] = "close"]
    /\ UNCHANGED <<queue, agent_id, shutdown, batch, cur, tret,
                   evInfo, raised, enq, delivered, nextEv>>

\* close(): join(timeout=flush_interval + 1) of the flush thread and
\* join(timeout=heartbeat_interval + 1) of the heartbeat thread when there
\* is one, then the final flush() is entered.  A join returns when the
\* thread has ended, or by timeout while the thread is held in a POST (the
\* request timeout, 10 s by default, exceeds the join's 6 s).
close_join(t) ==
    /\ UNCHANGED <<gateVars, cacheVars, fleetVars, wrapVars>>
    /\ hist' = After(t, "inner", TRUE)
    /\ pc[t] = "close_join"
    /\ pc[Flusher] \in {"exited", "dead", "post"}
    /\ hb.pc \in {"unstarted", "exited", "post"}
    /\ pc' = [pc EXCEPT ![t] = "flush_check"]
    /\ ret' = [ret EXCEPT ![t] = "close"]
    /\ UNCHANGED <<queue, agent_id, shutdown, httpClosed, batch, cur, tret,
                   evInfo, raised, enq, delivered, nextEv>>

\* close(): self._client.close().
close_release(t) ==
    /\ UNCHANGED <<gateVars, cacheVars, fleetVars, wrapVars>>
    /\ hist' = After(t, "inner", TRUE)
    /\ pc[t] = "close_release"
    /\ httpClosed' = TRUE
    /\ pc' = [pc EXCEPT ![t] = "idle"]
    /\ UNCHANGED <<queue, agent_id, shutdown, ret, batch, cur, tret, evInfo,
                   raised, enq, delivered, nextEv>>

\* ================================================================
\*      TruseraClient.__init__, fleet registration and heartbeat
\* ================================================================

\* Bound on the number of heartbeat intervals that elapse.
MaxBeats == 2

\* heartbeat_interval: float = 60.0
DefaultHeartbeat == 60

\* socket.gethostname()
Hostname == "host"

\* An argument of the constructor: whether the caller passed it, and the
\* value the parameter holds (its default when not passed).  "" stands
\* for None.
Arg(given, val) == [given |-> given, val |-> val]

\* An environment variable: whether it is set, and its text.
Var(set, val) == [set |-> set, val |-> val]
Unset == Var(FALSE, "")

KeyArgs  == {"tsk_1", "key1"}
AutoArgs == {Arg(FALSE, FALSE), Arg(TRUE, TRUE), Arg(TRUE, FALSE)}
BeatArgs == {Arg(FALSE, DefaultHeartbeat), Arg(TRUE, 30)}
TextArgs == {Arg(FALSE, ""), Arg(TRUE, "arg")}
AutoVars == {Unset, Var(TRUE, "true"), Var(TRUE, "false"), Var(TRUE, "maybe")}
BeatVars == {Unset, Var(TRUE, ""), Var(TRUE, "15"), Var(TRUE, "abc")}
TextVars == {Unset, Var(TRUE, "env")}

\* api_key.startswith("tsk_")
HasPrefix(key) == key = "tsk_1"

\* os.environ.get(name) / os.environ.get(name, ""): "" stands for None.
Get(v) == IF v.set THEN v.val ELSE ""

\* float(text): the number, for the texts that are one.
IsNumber(text) == text = "15"
Float(text) == IF text = "15" THEN 15 ELSE 0

\* The constructor called with nothing but a well-formed key, in an empty
\* environment.
PlainArgs ==
    [api_key |-> "tsk_1", auto_register |-> Arg(FALSE, FALSE),
     heartbeat_interval |-> Arg(FALSE, DefaultHeartbeat),
     agent_name |-> Arg(FALSE, ""), agent_type |-> Arg(FALSE, ""),
     environment |-> Arg(FALSE, "")]

EmptyEnv ==
    [auto_register |-> Unset, heartbeat_interval |-> Unset,
     agent_name |-> Unset, agent_type |-> Unset, environment |-> Unset]

\* The configuration before __init__ has stored it.
NoConf ==
    [auto_register |-> FALSE, agent_name |-> "", agent_type |-> "",
     environment |-> "", heartbeat_interval |-> 0]

\* auto_register after the TRUSERA_AUTO_REGISTER test.
AutoRegister(a, e) ==
    IF Get(e.auto_register) = "true" THEN TRUE
    ELSE IF Get(e.auto_register) = "false" THEN FALSE
    ELSE a.auto_register.val

\* x or os.environ.get(NAME, "")
OrEnv(arg, v) == IF arg.val # "" THEN arg.val ELSE Get(v)

\* A variant of Configure() in which an argument that was passed wins over
\* the environment for every value.
Configure_argumentFirst(a, e) ==
    [auto_register |-> IF a.auto_register.given THEN a.auto_register.val
                       ELSE AutoRegister(a, e),
     agent_name |-> IF OrEnv(a.agent_name, e.agent_name) # ""
                      THEN OrEnv(a.agent_name, e.agent_name) ELSE Hostname,
     agent_type |-> OrEnv(a.agent_type, e.agent_type),
     environment |-> OrEnv(a.environment, e.environment),
     heartbeat_interval |->
         IF a.heartbeat_interval.given THEN a.heartbeat_interval.val
         ELSE IF Get(e.heartbeat_interval) # ""
                THEN Float(Get(e.heartbeat_interval))
         ELSE a.heartbeat_interval.val]

\* The configuration __init__ stores (client.py:80-91).
Configure(a, e) ==
    [auto_register |-> AutoRegister(a, e),
     agent_name |-> IF OrEnv(a.agent_name, e.agent_name) # ""
                      THEN OrEnv(a.agent_name, e.agent_name) ELSE Hostname,
     agent_type |-> OrEnv(a.agent_type, e.agent_type),
     environment |-> OrEnv(a.environment, e.environment),
     heartbeat_interval |->
         IF Get(e.heartbeat_interval) # ""
           THEN Float(Get(e.heartbeat_interval))
           ELSE a.heartbeat_interval.val]

\* Outcomes of the registration request (client.py:285-299):
\*   "id"          2xx with an id in the response;
\*   "no_id"       2xx without one;
\*   "http_error"  httpx.HTTPError (transport error or failing status);
\*   "other"       any other exception (a body that is not JSON, ...).
RegOutcomes == {"id", "no_id", "http_error", "other"}

\* The heartbeat thread: position, intervals elapsed, requests made,
\* failures logged.
NoBeat == [pc |-> "unstarted", ticks |-> 0, attempts |-> 0, failed |-> 0]

\* A client built by TruseraClient("tsk_...") in an empty environment:
\* no registration, no heartbeat thread.
FleetIdle ==
    /\ args = PlainArgs
    /\ env = EmptyEnv
    /\ conf = Configure(PlainArgs, EmptyEnv)
    /\ log = {}
    /\ reg = "none"
    /\ fleet_agent_id = FALSE
    /\ hb = NoBeat

\* The steps of __init__ leave the client's queue and flags as they are.
CtorStep(to) ==
    /\ pc' = [pc EXCEPT ![SoloCaller] = to]
    /\ UNCHANGED <<queue, agent_id, shutdown, httpClosed, ret, batch, cur,
                   tret, evInfo, enq, delivered, nextEv, hist>>
    /\ UNCHANGED <<gateVars, cacheVars, wrapVars>>

\* A variant of the key test that rejects a key without the prefix.
ctor_key_strict ==
    /\ pc[SoloCaller] = "ctor_key"
    /\ IF HasPrefix(args.api_key)
         THEN /\ CtorStep("ctor_config")
              /\ UNCHANGED raised
         ELSE /\ CtorStep("ctor_failed")
              /\ raised' = [raised EXCEPT ![SoloCaller] = "ctor"]
    /\ UNCHANGED <<args, env, conf, log, reg, fleet_agent_id, hb>>

\* __init__: the key test; a key without the prefix is logged.
ctor_key ==
    /\ pc[SoloCaller] = "ctor_key"
    /\ log' = IF HasPrefix(args.api_key) THEN log ELSE log \cup {"api_key"}
    /\ CtorStep("ctor_config")
    /\ UNCHANGED <<args, env, conf, reg, fleet_agent_id, hb, raised>>

\* __init__: the configuration is read from arguments and environment;
\* float() raises ValueError on a TRUSERA_HEARTBEAT_INTERVAL that is not a
\* number, which ends the constructor.
ctor_config ==
    /\ pc[SoloCaller] = "ctor_config"
    /\ IF Get(env.heartbeat_interval) # ""
          /\ ~IsNumber(Get(env.heartbeat_interval))
         THEN /\ CtorStep("ctor_failed")
              /\ raised' = [raised EXCEPT ![SoloCaller] = "ctor"]
              /\ UNCHANGED conf
         ELSE /\ CtorStep("ctor_register")
              /\ conf' = Configure(args, env)
              /\ UNCHANGED raised
    /\ UNCHANGED <<args, env, log, reg, fleet_agent_id, hb>>

\* A variant of _register_with_fleet() that catches httpx.HTTPError only.
ctor_register_httpOnly(o) ==
    /\ pc[SoloCaller] = "ctor_register"
    /\ IF ~conf.auto_register
         THEN /\ o = "id"
              /\ CtorStep("ctor_threads")
              /\ UNCHANGED <<reg, fleet_agent_id, log, raised>>
         ELSE /\ reg' = o
              /\ fleet_agent_id' = (o = "id")
              /\ log' = IF o = "id" THEN log ELSE log \cup {"register"}
              /\ IF o = "other"
                   THEN /\ CtorStep("ctor_failed")
                        /\ raised' = [raised EXCEPT ![SoloCaller] = "ctor"]
                   ELSE /\ CtorStep("ctor_threads")
                        /\ UNCHANGED raised
    /\ UNCHANGED <<args, env, conf, hb>>

\* __init__: if self._auto_register: self._register_with_fleet().  The
\* identity is stored when the response has an id; every failure is
\* logged and the constructor goes on.
ctor_register(o) ==
    /\ pc[SoloCaller] = "ctor_register"
    /\ IF ~conf.auto_register
         THEN /\ o = "id"
              /\ UNCHANGED <<reg, fleet_agent_id, log>>
         ELSE /\ reg' = o
              /\ fleet_agent_id' = (o = "id")
              /\ log' = IF o = "id" THEN log ELSE log \cup {"register"}
    /\ CtorStep("ctor_threads")
    /\ UNCHANGED <<args, env, conf, hb, raised>>

\* __init__: the flush thread is started; the heartbeat thread is started
\* when the fleet identity is set; the constructor returns.
ctor_threads ==
    /\ pc[SoloCaller] = "ctor_threads"
    /\ pc' = [pc EXCEPT ![SoloCaller] = "idle", ![Flusher] = "loop_top"]
    /\ hb' = IF fleet_agent_id THEN [hb EXCEPT !.pc = "top"] ELSE hb
    /\ UNCHANGED <<queue, agent_id, shutdown, httpClosed, ret, batch, cur,
                   tret, evInfo, raised, enq, delivered, nextEv, hist>>
    /\ UNCHANGED <<gateVars, cacheVars, wrapVars>>
    /\ UNCHANGED <<args, env, conf, log, reg, fleet_agent_id>>

\* A step of the heartbeat thread changes nothing of the client.
BeatStep(h) ==
    /\ hb' = h
    /\ UNCHANGED <<clientVars, gateVars, cacheVars, wrapVars>>
    /\ UNCHANGED <<args, env, conf, log, reg, fleet_agent_id>>

\* _heartbeat_loop: while not self._shutdown.is_set().
hb_top ==
    /\ hb.pc = "top"
    /\ BeatStep([hb EXCEPT !.pc = IF shutdown THEN "exited" ELSE "wait"])

\* _heartbeat_loop: self._shutdown.wait(timeout=heartbeat_interval)
\* returns, because the signal was set or the interval has elapsed; the
\* loop ends on the signal (and would end without a fleet identity).
hb_wake ==
    /\ hb.pc = "wait"
    /\ IF shutdown \/ ~fleet_agent_id
         THEN BeatStep([hb EXCEPT !.pc = "exited"])
         ELSE /\ hb.ticks < MaxBeats
              /\ BeatStep([hb EXCEPT !.pc = "post", !.ticks = @ + 1])

\* A variant of the heartbeat request in which an exception that is not
\* an httpx.HTTPError ends the thread.
hb_post_httpOnly(o) ==
    /\ hb.pc = "post"
    /\ BeatStep([hb EXCEPT !.pc = IF o = "other" THEN "dead" ELSE "top",
                           !.attempts = @ + 1,
                           !.failed = IF o = "ok" THEN @ ELSE @ + 1])

\* _heartbeat_loop: the heartbeat request.  Every failure is caught and
\* logged, and the loop goes round.
hb_post(o) ==
    /\ hb.pc = "post"
    /\ BeatStep([hb EXCEPT !.pc = "top",
                           !.attempts = @ + 1,
                           !.failed = IF o = "ok" THEN @ ELSE @ + 1])

\* Construction, the two background threads, and close().
FleetNext ==
    \/ ctor_key
    \/ ctor_config
    \/ \E o \in RegOutcomes : ctor_register(o)
    \/ ctor_threads
    \/ hb_top
    \/ hb_wake
    \/ \E o \in PostOutcomes : hb_post(o)
    \/ loop_top
    \/ loop_wake
    \/ \E t \in {SoloCaller, Flusher} : flush_check(t)
    \/ close_check(SoloCaller)
    \/ close_set(SoloCaller)
    \/ close_join(SoloCaller)
    \/ close_release(SoloCaller)

\* A variant of register_agent() that sets the agent id before the request.
register_agent_idFirst(t) ==
    /\ pc[t] = "idle"
    /\ \E o \in Outcomes :
         /\ agent_id' = TRUE
         /\ raised' = [raised EXCEPT ![t] =
                         IF o = "ok" THEN "none" ELSE "register_agent"]
         /\ hist' = After(t, IF o = "ok" THEN "set_agent_id"
                                          ELSE "register_agent", TRUE)
    /\ UNCHANGED <<queue, shutdown, httpClosed, pc, ret, batch, cur, tret,
                   evInfo, enq, delivered, nextEv>>
    /\ UNCHANGED <<gateVars, cacheVars, fleetVars, wrapVars>>

\* register_agent(): POSTs the registration; on success the id of the
\* response goes to set_agent_id(); every failure is raised to the caller
\* (an httpx.HTTPError is logged first).
register_agent(t) ==
    /\ pc[t] = "idle"
    /\ \E o \in Outcomes :
         /\ agent_id' = (agent_id \/ o = "ok")
         /\ raised' = [raised EXCEPT ![t] =
                         IF o = "ok" THEN "none" ELSE "register_agent"]
         /\ hist' = After(t, IF o = "ok" THEN "set_agent_id"
                                          ELSE "register_agent", TRUE)
    /\ UNCHANGED <<queue, shutdown, httpClosed, pc, ret, batch, cur, tret,
                   evInfo, enq, delivered, nextEv>>
    /\ UNCHANGED <<gateVars, cacheVars, fleetVars, wrapVars>>

\* The whole life of one client used by one thread: construction with
\* fleet registration, the agent id, track() and flush(), the two
\* background threads, close().  The thread tracks up to batch_size events,
\* enough for track() to flush.
LifeNext ==
    \/ FleetNext
    \/ set_agent_id(SoloCaller)
    \/ register_agent(SoloCaller)
    \/ nextEv <= BatchSize /\ track_call(SoloCaller)
    \/ track_put(SoloCaller)
    \/ track_size(SoloCaller)
    \/ \E t \in {SoloCaller, Flusher} : flush_drain(t)
    \/ \E t \in {SoloCaller, Flusher} : flush_post(t)
    \/ \E t \in {SoloCaller, Flusher} : flush_requeue(t)

\* The configuration step of the constructor alone.
ConfigNext ==
    \/ ctor_key
    \/ ctor_config

ClientNext ==
    \/ \E t \in Callers : set_agent_id(t)
    \/ \E t \in Callers : track_call(t)
    \/ \E t \in Callers : track_put(t)
    \/ \E t \in Callers : track_size(t)
    \/ \E t \in Callers : flush_call(t)
    \/ \E t \in Threads : flush_check(t)
    \/ \E t \in Threads : flush_drain(t)
    \/ \E t \in Threads : flush_post(t)
    \/ \E t \in Threads : flush_requeue(t)
    \/ loop_top
    \/ loop_wake
    \/ \E t \in Callers : close_check(t)
    \/ \E t \in Callers : close_set(t)
    \/ \E t \in Callers : close_join(t)
    \/ \E t \in Callers : close_release(t)

\* ----------------------------------------------------------------
\* Telemetry client: the delivery contract
\* ----------------------------------------------------------------

\* An event is held by a flush() in progress: drained and not yet sent, or
\* waiting in the re-queue loop.
InFlight(e) ==
    \E t \in Threads : pc[t] \in {"drain", "post", "requeue"}
                       /\ e \in SeqToSet(batch[t])

\* C1: every event that track() put on the queue is still in the queue, in
\* a batch being sent, or was accepted by a successful POST.
C1_NoEventLost ==
    \A e \in enq : \/ e \in SeqToSet(queue)
                   \/ InFlight(e)
                   \/ delivered[e] > 0

\* C2: a flush() whose POST fails, in whatever way, puts every drained
\* event back: the failed send enters the re-queue loop with the whole
\* batch, every turn of the loop puts the next event on the queue, and
\* flush() ends only when the batch has been put back.
C2_FailedFlushRequeues ==
    [][\A t \in Threads :
         /\ (pc[t] = "post" /\ pc'[t] # "post" /\ delivered' = delivered)
              => (pc'[t] = "requeue" /\ batch'[t] = batch[t])
         /\ (pc[t] = "requeue" /\ batch'[t] # batch[t])
              => queue' = Append(queue, Head(batch[t]))
         /\ (pc[t] = "requeue" /\ pc'[t] # "requeue")
              => batch[t] = <<>>]_clientVars

\* C10: no track() call ends with an exception of the flush it triggered.
C10_TrackNeverRaises ==
    \A t \in Callers : raised[t] # "track" /\ pc[t] # "enf_raise"

\* ----------------------------------------------------------------
\* Telemetry client: batching, agent id, shutdown
\* ----------------------------------------------------------------

FlushPcs == {"flush_check", "drain", "post", "requeue"}

\* C11: in a run where one thread sets the agent id on the empty queue and
\* then calls track() repeatedly, no other thread flushing meanwhile (the
\* flush interval has not elapsed): the first batch_size - 1 calls start no
\* flush; the batch_size-th call starts one, from track() itself, whose
\* single POST carries the batch_size events; when that call has returned
\* every one of them was carried by exactly one successful POST, or the
\* one POST failed and none was delivered.
C11_BatchSizeTriggersOneFlush ==
    hist.only = "batch" =>
      LET k == nextEv - 1
          first == 1..BatchSize
      IN  /\ k < BatchSize =>
               /\ pc[SoloCaller] \notin FlushPcs
               /\ \A e \in EventIds : delivered[e] = 0
          /\ (k = BatchSize /\ pc[SoloCaller] \in FlushPcs) =>
               /\ cur[SoloCaller] = BatchSize
               /\ ret[SoloCaller] = "track"
          /\ (k = BatchSize /\ pc[SoloCaller] = "post") =>
               batch[SoloCaller] = [i \in first |-> i]
          /\ (k = BatchSize /\ pc[SoloCaller] = "idle") =>
               IF hist.ok
                 THEN /\ \A e \in first : delivered[e] = 1
                      /\ queue = <<>>
                 ELSE \A e \in first : delivered[e] = 0

\* The batch_size-th call has returned and its flush delivered the batch.
C11_Witness ==
    /\ hist.only = "batch"
    /\ hist.ok
    /\ nextEv - 1 = BatchSize
    /\ pc[SoloCaller] = "idle"
    /\ \A e \in 1..BatchSize : delivered[e] = 1

\* C12: no caller thread POSTs inside a track() call.
C12_NoPostInTrack ==
    \A t \in Callers : ~(pc[t] = "post" /\ ret[t] = "track")

\* C13: while no agent id is set no flush() drains or POSTs, nothing is
\* delivered, and the queue holds every event that was put on it, also
\* beyond batch_size.
C13_NoAgentNoFlush ==
    ~agent_id =>
      /\ \A t \in Threads : pc[t] \notin {"drain", "post", "requeue"}
      /\ \A e \in EventIds : delivered[e] = 0
      /\ enq = SeqToSet(queue)
      /\ Len(queue) = Cardinality(enq)

\* More events than batch_size wait in the queue of a client without an
\* agent id, the flushes that track() triggered having done nothing.
C13_Witness ==
    /\ ~agent_id
    /\ Len(queue) > BatchSize
    /\ \A t \in Callers : pc[t] = "idle"

\* C14: a track() call made when the shutdown signal is set returns at once:
\* nothing is put on the queue, no flush is started, no thread moves.
C14_TrackAfterShutdownDrops ==
    [][\A t \in Callers :
         (track_call(t) /\ shutdown) =>
           /\ queue' = queue
           /\ enq' = enq
           /\ pc' = pc
           /\ ret' = ret
           /\ batch' = batch
           /\ delivered' = delivered]_clientVars

\* An event was handed to track() after shutdown and is in no queue.
C14_Witness ==
    /\ shutdown
    /\ \E e \in EventIds :
         /\ evInfo[e] # NoEvent
         /\ e \notin enq
         /\ \A t \in Threads : cur[t] # e

\* C15: a close() call made when the shutdown signal is already set does
\* nothing: no join, no flush, no release of the network client, no state
\* change, no error.
C15_SecondCloseNoOp ==
    [][\A t \in Callers :
         (close_check(t) /\ shutdown) =>
           /\ UNCHANGED <<queue, agent_id, shutdown, httpClosed, pc, ret,
                          batch, cur, tret, enq, delivered>>
           /\ raised'[t] = "none"]_clientVars

\* A first close() has completed and every caller can call close() again.
C15_Witness ==
    /\ shutdown
    /\ httpClosed
    /\ \A t \in Callers : pc[t] = "idle" /\ raised[t] = "none"

\* C16: in a single-threaded run where close() was called with the agent
\* id set and every POST succeeded, when close() has returned the queue is
\* empty and every tracked event has been delivered.
C16_CloseDeliversAll ==
    (/\ hist.only \in {"batch", "solo"}
     /\ hist.ok
     /\ hist.atClose = "agent"
     /\ httpClosed) =>
      /\ queue = <<>>
      /\ \A e \in enq : delivered[e] > 0

\* C17: in a single-threaded run, an explicit flush() whose POST succeeds
\* leaves the queue empty.
C17_FlushEmptiesQueue ==
    [][(/\ hist.only \in {"batch", "solo"}
        /\ pc[SoloCaller] = "post"
        /\ ret[SoloCaller] = "flush"
        /\ delivered' # delivered) => queue' = <<>>]_clientVars

\* C18: every batch that is POSTed holds at least one and at most
\* batch_size events; a flush() that drained nothing sends no request.
C18_BatchBounds ==
    \A t \in Threads :
      pc[t] = "post" => Len(batch[t]) >= 1 /\ Len(batch[t]) <= BatchSize

\* A full batch is being POSTed while events remain in the queue.
C18_Witness ==
    \E t \in Threads :
      pc[t] = "post" /\ Len(batch[t]) = BatchSize /\ queue # <<>>

\* ----------------------------------------------------------------
\* Telemetry client: the background loop and concurrent use
\* ----------------------------------------------------------------

\* C31: as long as shutdown has not been signalled the flush thread is
\* alive, whatever the outcome of the flushes it has made: it has neither
\* left _flush_loop nor been ended by an exception.
C31_FlushLoopStaysAlive ==
    ~shutdown => pc[Flusher] \notin {"dead", "exited"}

\* The number of times event e occurs in sequence q.
Times(e, q) == Cardinality({i \in 1..Len(q) : q[i] = e})

\* The number of places that hold event e: the queue, and the batches of
\* the flush() calls in progress.
Copies(e) ==
    Times(e, queue) + Times(e, batch["c1"]) + Times(e, batch["c2"])
                    + Times(e, batch[Flusher])

C35_NoTrackAfterRelease ==
    [][httpClosed =>
         /\ enq' = enq
         /\ \A t \in Callers : ~(ret'[t] = "track" /\ ret[t] # "track")
      ]_clientVars

\* C37: at most one thread performs the final flush of close() and the
\* release of the network client.
C37_CloseRunsOnce ==
    Cardinality({t \in Callers :
                   ret[t] = "close" \/ pc[t] = "close_release"}) <= 1

\* ================================================================
\*          Interceptors: _evaluate, _enforce, install, uninstall
\* ================================================================
Interceptors == {"i1"}
Modes        == {"block", "warn", "log"}
\* The thread that installs the gates and calls through the call site.
GateCaller   == "c1"
\* The calls made through the call site: the tool's name and arguments.
Calls        == {[site |-> "tool_run", action |-> "tool_call",
                  target |-> "search", args |-> "a1"],
                 [site |-> "llm_generate", action |-> "llm_call",
                  target |-> "gpt", args |-> "a2"]}

\* The class attributes install() patches: the tools' _run and the
\* language models' _generate.
Sites == {"tool_run", "llm_generate"}

\* An implementation held by the call site: the chain of patched functions
\* wrapped around the original, outermost first; <<>> is the original.
\* NoneImpl is the None that _orig_run holds before the first install().
NoneImpl == <<"None">>

\* Every site holds its original; no _orig_* attribute is set.
Unpatched == [s \in Sites |-> <<>>]
NothingSaved == [s \in Sites |-> NoneImpl]

\* What the original implementation returns for its arguments.
OrigResult(a) == [of |-> a]
NoResult == [of |-> "none"]

\* What the policy cache's evaluate_action() can answer.
CacheAnswers ==
    {[decision |-> "ALLOW", reason |-> "no forbid rule matched",
      policy_id |-> "none"],
     [decision |-> "DENY", reason |-> "forbidden by policy",
      policy_id |-> "p1"]}

NoError == [action |-> "", target |-> "", reason |-> "", policy_id |-> ""]

\* No call has been made yet.
NoCall ==
    [st |-> "none", site |-> "", action |-> "", target |-> "", args |-> "",
     i |-> "", chain |-> <<>>,
     enf |-> "none", allowed |-> TRUE, reason |-> "", policy |-> "",
     tracks |-> 0,
     ev |-> 0, dropped |-> FALSE, origCalls |-> 0, origArgs |-> "",
     result |-> NoResult, err |-> NoError]

\* State after the interceptors' __init__: any enforcement mode, with or
\* without telemetry client and policy cache, nothing installed.
GateInit ==
    /\ mode \in [Interceptors -> Modes]
    /\ hasClient \in [Interceptors -> BOOLEAN]
    /\ hasCache \in [Interceptors -> BOOLEAN]
    /\ patchable \in BOOLEAN
    /\ installed = [i \in Interceptors |-> FALSE]
    /\ saved = [i \in Interceptors |-> NothingSaved]
    /\ callSite = Unpatched
    /\ g = NoCall

\* _evaluate(action_type, target): (allowed, reason) of the cache's answer;
\* without a cache everything is allowed.
Evaluate(i, ans) ==
    IF ~hasCache[i]
      THEN [allowed |-> TRUE, reason |-> "No policy cache"]
      ELSE [allowed |-> ans.decision = "ALLOW", reason |-> ans.reason]

\* The Event _enforce() hands to track().
ViolationEvent(i, action, target, reason) ==
    [type |-> "POLICY_VIOLATION", action |-> action, target |-> target,
     reason |-> reason, enforcement |-> mode[i]]

\* The PolicyViolationError _enforce() raises under BLOCK: action, target
\* and reason; policy_id keeps its default, None.
ViolationError(action, target, reason) ==
    [action |-> action, target |-> target, reason |-> reason,
     policy_id |-> "None"]

\* A variant of install() without the test of _installed.
install_unguarded(i) ==
    /\ pc[GateCaller] = "idle"
    /\ IF ~patchable
         THEN /\ raised' = [raised EXCEPT ![GateCaller] = "none"]
              /\ UNCHANGED <<installed, saved, callSite>>
         ELSE /\ saved' = [saved EXCEPT ![i] = callSite]
              /\ callSite' = [s \in Sites |-> <<i>> \o callSite[s]]
              /\ installed' = [installed EXCEPT ![i] = TRUE]
              /\ raised' = [raised EXCEPT ![GateCaller] = "none"]
    /\ UNCHANGED <<queue, agent_id, shutdown, httpClosed, pc, ret, batch,
                   cur, tret, evInfo, enq, delivered, nextEv>>
    /\ UNCHANGED <<mode, hasClient, hasCache, patchable, g>>
    /\ UNCHANGED <<cacheVars, fleetVars, hist, wrapVars>>

\* install(): raises when already installed; returns without patching when
\* the framework class lacks the attribute (AutoGen); otherwise saves the
\* implementation of every site and puts a patched function in its place.
\* The chain of patched functions at a site is kept within the number of
\* events one call through it may track.
Install(i) ==
    /\ pc[GateCaller] = "idle"
    /\ \A s \in Sites : Len(callSite[s]) < MaxEvents
    /\ IF installed[i]
         THEN /\ raised' = [raised EXCEPT ![GateCaller] = "install"]
              /\ UNCHANGED <<installed, saved, callSite>>
         ELSE IF ~patchable
         THEN /\ raised' = [raised EXCEPT ![GateCaller] = "none"]
              /\ UNCHANGED <<installed, saved, callSite>>
         ELSE /\ saved' = [saved EXCEPT ![i] = callSite]
              /\ callSite' = [s \in Sites |-> <<i>> \o callSite[s]]
              /\ installed' = [installed EXCEPT ![i] = TRUE]
              /\ raised' = [raised EXCEPT ![GateCaller] = "none"]
    /\ UNCHANGED <<queue, agent_id, shutdown, httpClosed, pc, ret, batch,
                   cur, tret, evInfo, enq, delivered, nextEv>>
    /\ UNCHANGED <<mode, hasClient, hasCache, patchable, g>>
    /\ UNCHANGED <<cacheVars, fleetVars, hist>>

\* A variant of uninstall() that restores the tools' _run only.
uninstall_toolOnly(i) ==
    /\ pc[GateCaller] = "idle"
    /\ IF ~installed[i]
         THEN /\ raised' = [raised EXCEPT ![GateCaller] = "uninstall"]
              /\ UNCHANGED <<installed, callSite>>
         ELSE /\ callSite' = [callSite EXCEPT !["tool_run"] =
                                IF saved[i]["tool_run"] # NoneImpl
                                  THEN saved[i]["tool_run"] ELSE @]
              /\ installed' = [installed EXCEPT ![i] = FALSE]
              /\ raised' = [raised EXCEPT ![GateCaller] = "none"]
    /\ UNCHANGED <<queue, agent_id, shutdown, httpClosed, pc, ret, batch,
                   cur, tret, evInfo, enq, delivered, nextEv>>
    /\ UNCHANGED <<mode, hasClient, hasCache, patchable, saved, g>>
    /\ UNCHANGED <<cacheVars, fleetVars, hist, wrapVars>>

\* uninstall(): raises when not installed; otherwise restores at every site
\* the implementation saved for it, when one is saved.
Uninstall(i) ==
    /\ pc[GateCaller] = "idle"
    /\ IF ~installed[i]
         THEN /\ raised' = [raised EXCEPT ![GateCaller] = "uninstall"]
              /\ UNCHANGED <<installed, callSite>>
         ELSE /\ callSite' = [s \in Sites |->
                                IF saved[i][s] # NoneImpl THEN saved[i][s]
                                                          ELSE callSite[s]]
              /\ installed' = [installed EXCEPT ![i] = FALSE]
              /\ raised' = [raised EXCEPT ![GateCaller] = "none"]
    /\ UNCHANGED <<queue, agent_id, shutdown, httpClosed, pc, ret, batch,
                   cur, tret, evInfo, enq, delivered, nextEv>>
    /\ UNCHANGED <<mode, hasClient, hasCache, patchable, saved, g>>
    /\ UNCHANGED <<cacheVars, fleetVars, hist>>

\* A direct call of install() / uninstall().
install(i) == Install(i) /\ UNCHANGED wrapVars

uninstall(i) == Uninstall(i) /\ UNCHANGED wrapVars

\* How a with-block can end: by running to its end, by an exception of the
\* guarded code, or by the violation error of a gated call.
Endings == {"return", "exception", "violation"}

NoScope == [st |-> "none", i |-> "", how |-> "", before |-> Unpatched]

\* __enter__: self.install(); return self.  When install() raises, the
\* block is not entered and __exit__ is not called.
scope_enter(i) ==
    /\ scope.st # "in"
    /\ Install(i)
    /\ scope' = IF installed[i] THEN scope
                ELSE [st |-> "in", i |-> i, how |-> "", before |-> callSite]
    /\ UNCHANGED <<llm, exclude_patterns, net>>

\* A variant of __exit__ that uninstalls only when the block ended normally.
scope_exit_onReturn(i, how) ==
    /\ scope.st = "in" /\ scope.i = i
    /\ pc[GateCaller] = "idle"
    /\ how = "violation" => raised[GateCaller] = "violation"
    /\ scope' = [scope EXCEPT !.st = "exited", !.how = how]
    /\ UNCHANGED <<llm, exclude_patterns, net>>
    /\ IF installed[i] /\ how = "return"
         THEN Uninstall(i)
         ELSE UNCHANGED <<clientVars, gateVars, cacheVars, fleetVars>>

\* __exit__(*exc): if self._installed: self.uninstall().  It is called
\* however the block ended, and returns None, so an exception goes on to
\* the caller of the with statement.
scope_exit(i, how) ==
    /\ scope.st = "in" /\ scope.i = i
    /\ pc[GateCaller] = "idle"
    /\ how = "violation" => raised[GateCaller] = "violation"
    /\ scope' = [scope EXCEPT !.st = "exited", !.how = how]
    /\ UNCHANGED <<llm, exclude_patterns, net>>
    /\ IF installed[i]
         THEN Uninstall(i)
         ELSE UNCHANGED <<clientVars, gateVars, cacheVars, fleetVars>>

\* A call through a call site.  The original, when the site holds it,
\* runs ungated; a patched function starts with its interceptor.
gate_call(c) ==
    /\ pc[GateCaller] = "idle"
    /\ patchable
    /\ nextEv + Len(callSite[c.site]) <= MaxEvents + 1
    /\ raised' = [raised EXCEPT ![GateCaller] = "none"]
    /\ IF callSite[c.site] = <<>>
         THEN /\ g' = [NoCall EXCEPT !.st = "returned", !.site = c.site,
                                     !.action = c.action,
                                     !.target = c.target, !.args = c.args,
                                     !.origCalls = 1, !.origArgs = c.args,
                                     !.result = OrigResult(c.args)]
              /\ UNCHANGED pc
         ELSE /\ g' = [NoCall EXCEPT !.st = "running", !.site = c.site,
                                     !.action = c.action,
                                     !.target = c.target, !.args = c.args,
                                     !.i = Head(callSite[c.site]),
                                     !.chain = Tail(callSite[c.site])]
              /\ pc' = [pc EXCEPT ![GateCaller] = "gate_eval"]
    /\ UNCHANGED <<queue, agent_id, shutdown, httpClosed, ret, batch, cur,
                   tret, evInfo, enq, delivered, nextEv>>
    /\ UNCHANGED <<mode, hasClient, hasCache, patchable, installed, saved,
                   callSite>>
    /\ UNCHANGED <<cacheVars, fleetVars, hist, wrapVars>>

\* The patched function: _evaluate(action, name), then _enforce() up to its
\* track() call: an allowed call returns from _enforce() at once, a denied
\* one hands the violation event to the client when one is attached.
gate_eval(ans) ==
    /\ pc[GateCaller] = "gate_eval"
    /\ LET r == Evaluate(g.i, ans)
           gg == [g EXCEPT !.allowed = r.allowed, !.reason = r.reason,
                           !.policy = IF hasCache[g.i] THEN ans.policy_id
                                                        ELSE "none",
                           !.tracks = 0, !.ev = 0, !.dropped = FALSE]
       IN  IF r.allowed
             THEN /\ g' = [gg EXCEPT !.enf = "returned"]
                  /\ pc' = [pc EXCEPT ![GateCaller] = "gate_next"]
                  /\ UNCHANGED <<queue, agent_id, shutdown, httpClosed, ret,
                                 batch, cur, tret, evInfo, enq, delivered,
                                 nextEv, hist>>
             ELSE IF hasClient[g.i]
               THEN /\ g' = [gg EXCEPT !.enf = "pending", !.tracks = 1,
                                       !.ev = IF shutdown THEN 0 ELSE nextEv,
                                       !.dropped = shutdown]
                    /\ TrackEnter(GateCaller,
                                  ViolationEvent(g.i, g.action, g.target,
                                                 r.reason),
                                  "enforce", "enf_mode")
               ELSE /\ g' = [gg EXCEPT !.enf = "pending"]
                    /\ pc' = [pc EXCEPT ![GateCaller] = "enf_mode"]
                    /\ UNCHANGED <<queue, agent_id, shutdown, httpClosed,
                                   ret, batch, cur, tret, evInfo, enq,
                                   delivered, nextEv, hist>>
    /\ UNCHANGED <<raised, mode, hasClient, hasCache, patchable, installed, saved,
                   callSite>>
    /\ UNCHANGED <<cacheVars, fleetVars, wrapVars>>

\* _enforce() after the event: BLOCK raises PolicyViolationError, which
\* leaves the patched function; WARN logs and LOG does nothing, and
\* _enforce() returns.
enf_mode ==
    /\ pc[GateCaller] = "enf_mode"
    /\ IF mode[g.i] = "block"
         THEN /\ g' = [g EXCEPT !.enf = "violation", !.st = "violation",
                                !.err = ViolationError(g.action, g.target,
                                                       g.reason)]
              /\ pc' = [pc EXCEPT ![GateCaller] = "idle"]
              /\ raised' = [raised EXCEPT ![GateCaller] = "violation"]
         ELSE /\ g' = [g EXCEPT !.enf = "returned"]
              /\ pc' = [pc EXCEPT ![GateCaller] = "gate_next"]
              /\ UNCHANGED raised
    /\ UNCHANGED <<queue, agent_id, shutdown, httpClosed, ret, batch, cur,
                   tret, evInfo, enq, delivered, nextEv>>
    /\ UNCHANGED <<mode, hasClient, hasCache, patchable, installed, saved,
                   callSite>>
    /\ UNCHANGED <<cacheVars, fleetVars, hist, wrapVars>>

\* An exception of track() leaves _enforce() and the patched function.
enf_raise ==
    /\ pc[GateCaller] = "enf_raise"
    /\ g' = [g EXCEPT !.enf = "error", !.st = "error"]
    /\ pc' = [pc EXCEPT ![GateCaller] = "idle"]
    /\ UNCHANGED <<queue, agent_id, shutdown, httpClosed, ret, batch, cur,
                   tret, evInfo, raised, enq, delivered, nextEv>>
    /\ UNCHANGED <<mode, hasClient, hasCache, patchable, installed, saved,
                   callSite>>
    /\ UNCHANGED <<cacheVars, fleetVars, hist, wrapVars>>

\* _patched_run: return orig(tool_self, *args, **kwargs).  The saved
\* implementation is the next patched function of the chain, or the
\* original, which runs with the caller's arguments.
gate_next ==
    /\ pc[GateCaller] = "gate_next"
    /\ IF g.chain # <<>>
         THEN /\ g' = [g EXCEPT !.i = Head(g.chain), !.chain = Tail(g.chain),
                                !.enf = "none"]
              /\ pc' = [pc EXCEPT ![GateCaller] = "gate_eval"]
         ELSE /\ g' = [g EXCEPT !.st = "returned",
                                !.origCalls = g.origCalls + 1,
                                !.origArgs = g.args,
                                !.result = OrigResult(g.args)]
              /\ pc' = [pc EXCEPT ![GateCaller] = "idle"]
    /\ UNCHANGED <<queue, agent_id, shutdown, httpClosed, ret, batch, cur,
                   tret, evInfo, raised, enq, delivered, nextEv>>
    /\ UNCHANGED <<mode, hasClient, hasCache, patchable, installed, saved,
                   callSite>>
    /\ UNCHANGED <<cacheVars, fleetVars, hist, wrapVars>>

\* ================================================================
\*        TruseraLLMInterceptor: the wrapped create() of a model client
\* ================================================================

\* Bound on the number of tool-use requests in one response.
MaxTools == 2

\* _extract_tool_calls(response): the names of the tools found in the
\* response, in order; a response without tool use gives the empty list.
ToolLists == UNION {[1..n -> {"search", "shell"}] : n \in 0..MaxTools}

\* The interceptor object whose client, cache and enforcement mode the
\* wrapper uses.
Wrapper == "i1"

Model == "gpt"

\* The values of the messages argument of a wrapped call: none, and two
\* messages the second of which holds an e-mail address.
Prompts ==
    {<<>>,
     <<[role |-> "user", content |-> "hello"],
       [role |-> "user", content |-> "write to a@b.c"]>>}

\* _extract_message_texts(messages): the text content of each message.
extract_message_texts(messages) ==
    [i \in DOMAIN messages |-> messages[i].content]

\* PIIRedactor.redact() on a list of texts: personal data is replaced by
\* its tag, text without personal data stays as it is.
Redact(texts) ==
    [i \in DOMAIN texts |->
        IF texts[i] = "write to a@b.c" THEN "write to [REDACTED_EMAIL]"
        ELSE texts[i]]

\* A variant of the event that carries the extracted texts as they are.
InvokeEvent_raw(redactor, messages) ==
    [type |-> "LLM_INVOKE", action |-> "", target |-> Model, reason |-> "",
     enforcement |-> "",
     hasMessages |-> messages # <<>>,
     messages |-> extract_message_texts(messages)]

\* The Event _log_llm_event() hands to track(): the payload has a messages
\* entry only if there are messages and a redactor, and the entry is what
\* the redactor returns for the extracted texts.
InvokeEvent(redactor, messages) ==
    [type |-> "LLM_INVOKE", action |-> "", target |-> Model, reason |-> "",
     enforcement |-> "",
     hasMessages |-> messages # <<>> /\ redactor,
     messages |-> IF messages # <<>> /\ redactor
                    THEN Redact(extract_message_texts(messages))
                    ELSE <<>>]

\* No wrapped call has been made.  seen lists the evaluated targets with
\* their decisions, enforced the targets _enforce() has dealt with, in
\* order; k is the position of the loop over the tool calls.  redactor
\* tells whether the interceptor was built with redact_pii, messages is
\* the caller's argument, allowed the decision on the model call, called
\* whether orig_create has been called and origArgs what it was given.
\* awaitable tells whether the wrapped client is an AsyncOpenAI or
\* AsyncAnthropic, whose create() returns an awaitable; answered whether
\* the model has given its response, and response the tool-use requests
\* in it.  tools is what _extract_tool_calls() found in the object that
\* orig_create returned.
NoInvoke ==
    [st |-> "none", tools |-> <<>>, k |-> 0, seen |-> <<>>,
     enforced |-> <<>>, reason |-> "", logged |-> FALSE,
     redactor |-> FALSE, messages |-> <<>>, allowed |-> TRUE,
     called |-> FALSE, origArgs |-> <<>>,
     awaitable |-> FALSE, answered |-> FALSE, response |-> <<>>]

\* A step of the wrapped call that calls no track().
NoTrack(to) ==
    /\ pc' = [pc EXCEPT ![GateCaller] = to]
    /\ UNCHANGED <<queue, agent_id, shutdown, httpClosed, ret, batch, cur,
                   tret, evInfo, enq, delivered, nextEv, hist>>

\* _patched_create: _evaluate("llm_call", model) and _enforce() up to its
\* track() call.  The call comes with any messages; the interceptor was
\* built with or without redact_pii and wraps a synchronous or an
\* asynchronous client, which the first call settles.
llm_call(ans) ==
    /\ pc[GateCaller] = "idle"
    /\ raised' = [raised EXCEPT ![GateCaller] = "none"]
    /\ LET r == Evaluate(Wrapper, ans)
       IN  /\ \E redactor \in (IF llm.st = "none" THEN BOOLEAN
                                ELSE {llm.redactor}),
                 awaitable \in (IF llm.st = "none" THEN BOOLEAN
                                 ELSE {llm.awaitable}),
                 messages \in Prompts :
                llm' = [NoInvoke EXCEPT !.st = "running",
                                        !.reason = r.reason,
                                        !.allowed = r.allowed,
                                        !.redactor = redactor,
                                        !.awaitable = awaitable,
                                        !.messages = messages]
           /\ IF r.allowed THEN NoTrack("llm_create")
              ELSE IF hasClient[Wrapper]
                THEN TrackEnter(GateCaller,
                                ViolationEvent(Wrapper, "llm_call", Model,
                                               r.reason),
                                "llm_pre", "llm_pre_mode")
                ELSE NoTrack("llm_pre_mode")
    /\ UNCHANGED <<gateVars, cacheVars, fleetVars, scope, exclude_patterns, net>>

\* _enforce() of the denied model call after the event: BLOCK raises and
\* the model is not called; otherwise the call goes on.
llm_pre_mode ==
    /\ pc[GateCaller] = "llm_pre_mode"
    /\ IF mode[Wrapper] = "block"
         THEN /\ llm' = [llm EXCEPT !.st = "violation"]
              /\ raised' = [raised EXCEPT ![GateCaller] = "violation"]
              /\ NoTrack("idle")
         ELSE /\ UNCHANGED <<llm, raised>>
              /\ NoTrack("llm_create")
    /\ UNCHANGED <<gateVars, cacheVars, fleetVars, scope, exclude_patterns, net>>

\* response = orig_create(*args, **kwargs), with the arguments of the
\* caller, then _log_llm_event(), which tracks the invocation when a
\* client is attached.  The create() of a synchronous client answers
\* with any list of tool-use requests, or raises, and its exception
\* leaves the wrapper.  The create() of an asynchronous client returns an
\* awaitable at once, in which _extract_tool_calls() finds nothing.
llm_create(tools) ==
    /\ pc[GateCaller] = "llm_create"
    /\ \/ /\ ~llm.awaitable
          /\ llm' = [llm EXCEPT !.tools = tools, !.k = 1,
                                 !.called = TRUE, !.answered = TRUE,
                                 !.response = tools,
                                 !.origArgs = llm.messages,
                                 !.logged = hasClient[Wrapper]]
          /\ IF hasClient[Wrapper]
               THEN TrackEnter(GateCaller,
                               InvokeEvent(llm.redactor, llm.messages),
                               "llm_log", "llm_tools")
               ELSE NoTrack("llm_tools")
          /\ UNCHANGED raised
       \/ /\ ~llm.awaitable
          /\ tools = <<>>
          /\ llm' = [llm EXCEPT !.st = "error", !.called = TRUE,
                                 !.origArgs = llm.messages]
          /\ raised' = [raised EXCEPT ![GateCaller] = "original"]
          /\ NoTrack("idle")
       \/ /\ llm.awaitable
          /\ tools = <<>>
          /\ llm' = [llm EXCEPT !.tools = <<>>, !.k = 1,
                                 !.called = TRUE,
                                 !.origArgs = llm.messages,
                                 !.logged = hasClient[Wrapper]]
          /\ IF hasClient[Wrapper]
               THEN TrackEnter(GateCaller,
                               InvokeEvent(llm.redactor, llm.messages),
                               "llm_log", "llm_tools")
               ELSE NoTrack("llm_tools")
          /\ UNCHANGED raised
    /\ UNCHANGED <<gateVars, cacheVars, fleetVars, scope, exclude_patterns, net>>

\* _check_tool_use_in_response(): for tc in tool_calls: _evaluate() and
\* _enforce() up to its track() call; after the last one the response is
\* returned to the caller.
llm_tools(ans) ==
    /\ pc[GateCaller] = "llm_tools"
    /\ IF llm.k > Len(llm.tools)
         THEN /\ llm' = [llm EXCEPT !.st = "returned"]
              /\ NoTrack("idle")
         ELSE LET tc == llm.tools[llm.k]
                  r == Evaluate(Wrapper, ans)
                  n == [llm EXCEPT !.seen = Append(@, [target |-> tc,
                                                       allowed |-> r.allowed]),
                                   !.reason = r.reason]
              IN  IF r.allowed
                    THEN /\ llm' = [n EXCEPT !.enforced = Append(@, tc),
                                             !.k = @ + 1]
                         /\ NoTrack("llm_tools")
                    ELSE /\ llm' = n
                         /\ IF hasClient[Wrapper]
                              THEN TrackEnter(GateCaller,
                                              ViolationEvent(Wrapper,
                                                "tool_call", tc, r.reason),
                                              "llm_tool", "llm_tool_mode")
                              ELSE NoTrack("llm_tool_mode")
    /\ UNCHANGED <<gateVars, cacheVars, fleetVars, scope, raised, exclude_patterns, net>>

\* _enforce() of a denied tool call after the event: BLOCK raises, and the
\* response is not returned; otherwise the loop goes on.
llm_tool_mode ==
    /\ pc[GateCaller] = "llm_tool_mode"
    /\ IF mode[Wrapper] = "block"
         THEN /\ llm' = [llm EXCEPT !.st = "violation",
                                    !.enforced = Append(@, llm.tools[llm.k])]
              /\ raised' = [raised EXCEPT ![GateCaller] = "violation"]
              /\ NoTrack("idle")
         ELSE /\ llm' = [llm EXCEPT !.enforced = Append(@, llm.tools[llm.k]),
                                    !.k = @ + 1]
              /\ UNCHANGED raised
              /\ NoTrack("llm_tools")
    /\ UNCHANGED <<gateVars, cacheVars, fleetVars, scope, exclude_patterns, net>>

\* An exception of track() leaves the wrapped call.
llm_raise ==
    /\ pc[GateCaller] = "llm_raise"
    /\ llm' = [llm EXCEPT !.st = "error"]
    /\ UNCHANGED raised
    /\ NoTrack("idle")
    /\ UNCHANGED <<gateVars, cacheVars, fleetVars, scope, exclude_patterns, net>>

\* The caller awaits what the wrapper of an asynchronous client returned:
\* only now the model is called; it answers with any list of tool-use
\* requests, or the call raises.
llm_await(tools) ==
    /\ pc[GateCaller] = "idle"
    /\ llm.st = "returned" /\ llm.awaitable /\ ~llm.answered
    /\ \/ /\ llm' = [llm EXCEPT !.answered = TRUE, !.response = tools]
          /\ UNCHANGED raised
       \/ /\ tools = <<>>
          /\ llm' = [llm EXCEPT !.st = "error"]
          /\ raised' = [raised EXCEPT ![GateCaller] = "original"]
    /\ NoTrack("idle")
    /\ UNCHANGED <<gateVars, cacheVars, fleetVars, scope, exclude_patterns, net>>

\* One thread calls the wrapped client; the telemetry client it reports
\* to may have an agent id, so that a track() can flush.
LLMNext ==
    \/ \E ans \in CacheAnswers : llm_call(ans)
    \/ llm_pre_mode
    \/ \E tools \in ToolLists : llm_create(tools)
    \/ \E ans \in CacheAnswers : llm_tools(ans)
    \/ llm_tool_mode
    \/ llm_raise
    \/ \E tools \in ToolLists : llm_await(tools)
    \/ set_agent_id(GateCaller)
    \/ track_put(GateCaller)
    \/ track_size(GateCaller)
    \/ flush_check(GateCaller)
    \/ flush_drain(GateCaller)
    \/ flush_post(GateCaller)
    \/ flush_requeue(GateCaller)

\* ================================================================
\*        TruseraInterceptor: the network-level interceptor
\* ================================================================

\* A URL is the sequence of its parts, host first.
TelemetryBase == <<"api.trusera.dev">>

Urls == { <<"api.trusera.dev", "v1", "events">>,
          <<"localhost:8080", "health">>,
          <<"example.com", "api">>,
          <<"evil.com", "api">> }

\* Exclusion patterns: each one matches the URLs that contain its part.
Patterns == {"localhost:8080", "example.com"}

IsPrefix(p, u) == Len(p) <= Len(u) /\ SubSeq(u, 1, Len(p)) = p

\* A variant of _should_intercept() that knows no telemetry backend.
ShouldIntercept_patternsOnly(url) ==
    \A pat \in exclude_patterns : pat \notin SeqToSet(url)

\* _should_intercept(url): not the telemetry backend of the attached
\* client, and no exclusion pattern matches.
ShouldIntercept(url) ==
    /\ ~(hasClient[Wrapper] /\ IsPrefix(TelemetryBase, url))
    /\ \A pat \in exclude_patterns : pat \notin SeqToSet(url)

NoRequest ==
    [st |-> "none", url |-> <<>>, evaluated |-> FALSE, allowed |-> TRUE,
     reason |-> "", policy |-> "", origCalls |-> 0, err |-> NoError]

\* The interception of an outbound request: an exempt URL goes straight to
\* the original send; any other is evaluated and enforced first, up to the
\* track() call of a denied one.
net_call(url, ans) ==
    /\ pc[GateCaller] = "idle"
    /\ raised' = [raised EXCEPT ![GateCaller] = "none"]
    /\ IF ~ShouldIntercept(url)
         THEN /\ net' = [NoRequest EXCEPT !.st = "returned", !.url = url,
                                          !.origCalls = 1]
              /\ NoTrack("idle")
         ELSE LET r == Evaluate(Wrapper, ans)
                  n == [NoRequest EXCEPT
                          !.st = "running", !.url = url, !.evaluated = TRUE,
                          !.allowed = r.allowed, !.reason = r.reason,
                          !.policy = IF hasCache[Wrapper] THEN ans.policy_id
                                                          ELSE "none"]
              IN  IF r.allowed
                    THEN /\ net' = [n EXCEPT !.st = "returned",
                                             !.origCalls = 1]
                         /\ NoTrack("idle")
                    ELSE /\ net' = n
                         /\ IF hasClient[Wrapper]
                              THEN TrackEnter(GateCaller,
                                              ViolationEvent(Wrapper, "http",
                                                             url, r.reason),
                                              "net", "net_mode")
                              ELSE NoTrack("net_mode")
    /\ UNCHANGED <<gateVars, cacheVars, fleetVars, scope, llm, exclude_patterns>>

\* The enforcement of a denied request after the event: BLOCK raises the
\* violation error and the request is not sent; otherwise it is sent.
net_mode ==
    /\ pc[GateCaller] = "net_mode"
    /\ IF mode[Wrapper] = "block"
         THEN /\ net' = [net EXCEPT !.st = "violation",
                                    !.err = [action |-> "http",
                                             target |-> net.url,
                                             reason |-> net.reason,
                                             policy_id |-> net.policy]]
              /\ raised' = [raised EXCEPT ![GateCaller] = "violation"]
         ELSE /\ net' = [net EXCEPT !.st = "returned", !.origCalls = 1]
              /\ UNCHANGED raised
    /\ NoTrack("idle")
    /\ UNCHANGED <<gateVars, cacheVars, fleetVars, scope, llm, exclude_patterns>>

\* An exception of track() leaves the interception.
net_raise ==
    /\ pc[GateCaller] = "net_raise"
    /\ net' = [net EXCEPT !.st = "error"]
    /\ UNCHANGED raised
    /\ NoTrack("idle")
    /\ UNCHANGED <<gateVars, cacheVars, fleetVars, scope, llm, exclude_patterns>>

\* One thread sends requests through the interceptor; the telemetry
\* client it reports to may have an agent id.
NetNext ==
    \/ \E url \in Urls, ans \in CacheAnswers : net_call(url, ans)
    \/ net_mode
    \/ net_raise
    \/ set_agent_id(GateCaller)
    \/ track_put(GateCaller)
    \/ track_size(GateCaller)
    \/ flush_check(GateCaller)
    \/ flush_drain(GateCaller)
    \/ flush_post(GateCaller)
    \/ flush_requeue(GateCaller)

\* The gate caller also owns the client's life cycle; the flush thread
\* runs beside it.
GateNext ==
    \/ \E i \in Interceptors : install(i)
    \/ \E i \in Interceptors : uninstall(i)
    \/ \E c \in Calls : gate_call(c)
    \/ \E ans \in CacheAnswers : gate_eval(ans)
    \/ enf_mode
    \/ enf_raise
    \/ gate_next
    \/ set_agent_id(GateCaller)
    \/ track_put(GateCaller)
    \/ track_size(GateCaller)
    \/ \E t \in {GateCaller, Flusher} : flush_check(t)
    \/ \E t \in {GateCaller, Flusher} : flush_drain(t)
    \/ \E t \in {GateCaller, Flusher} : flush_post(t)
    \/ \E t \in {GateCaller, Flusher} : flush_requeue(t)
    \/ loop_top
    \/ loop_wake
    \/ close_check(GateCaller)
    \/ close_set(GateCaller)
    \/ close_join(GateCaller)
    \/ close_release(GateCaller)

\* ================================================================
\*                 PolicyCache and the rule evaluator
\* ================================================================

\* Bound on the clock.
MaxTime == 2

\* Bound on the number of evaluator objects the cache builds.
MaxBuilds == 2

\* stale_ttl, in clock ticks.
StaleTtl == 1

\* Threads that run refresh_once(): the background refresh loop.
RefreshThreads == {"refresher"}

\* ---- rule texts (the restricted rule language of the evaluator)
Cond(attr, op, lit) == [attr |-> attr, op |-> op, lit |-> lit]

\* forbid (principal, action == Action::"http", resource)
\*   when { request.hostname == "evil.com" };
ForbidEvil ==
    [kind |-> "forbid", action |-> "http", resource |-> "*",
     conds |-> <<Cond("hostname", "==", "evil.com")>>]

\* the same with a second, inequality, condition
ForbidEvilWrite ==
    [kind |-> "forbid", action |-> "http", resource |-> "*",
     conds |-> <<Cond("hostname", "==", "evil.com"),
                 Cond("method", "!=", "GET")>>]

\* forbid (principal, action == Action::"tool_call", resource == "shell");
ForbidShell ==
    [kind |-> "forbid", action |-> "tool_call", resource |-> "shell",
     conds |-> <<>>]

\* permit (principal, action == Action::"http", resource);
PermitHttp ==
    [kind |-> "permit", action |-> "http", resource |-> "*", conds |-> <<>>]

\* text that is not a rule
Malformed ==
    [kind |-> "malformed", action |-> "", resource |-> "", conds |-> <<>>]

Policy(id, text, enabled) == [id |-> id, text |-> text, enabled |-> enabled]

\* The policy lists the remote authority serves: empty, one rule enabled
\* or disabled, two rules in both orders, and a malformed and a permit
\* rule ahead of a forbid rule.
PolicyLists ==
    { <<>>,
      <<Policy("p1", ForbidEvil, TRUE)>>,
      <<Policy("p1", ForbidEvil, FALSE)>>,
      <<Policy("p1", ForbidEvil, TRUE), Policy("p2", ForbidShell, TRUE)>>,
      <<Policy("p2", ForbidShell, TRUE), Policy("p1", ForbidEvil, TRUE)>>,
      <<Policy("p1", Malformed, TRUE), Policy("p2", PermitHttp, TRUE),
        Policy("p3", ForbidEvilWrite, TRUE)>> }

\* RequestContext values
Request(a, target, hostname, method) ==
    [action_type |-> a, target |-> target, hostname |-> hostname,
     method |-> method]

Requests ==
    { Request("http", "evil.com GET", "evil.com", "GET"),
      Request("http", "evil.com POST", "evil.com", "POST"),
      Request("http", "good.com GET", "good.com", "GET"),
      Request("tool_call", "search", "", ""),
      Request("tool_call", "shell", "", "") }

\* EvaluationResult values
Result(d, reason, pid) == [decision |-> d, reason |-> reason, policy_id |-> pid]
NoSourceResult == Result("ALLOW", "No policy cache", "none")
StaleResult == Result("ALLOW", "policy cache stale", "none")
DefaultAllow == Result("ALLOW", "no forbid rule matched", "none")
NoEvalResult == Result("", "", "")

\* ---- the evaluator
\* One attribute condition of a rule against a request.
CondHolds(c, req) ==
    IF c.op = "==" THEN req[c.attr] = c.lit ELSE req[c.attr] # c.lit

\* A compiled rule matches: action type, resource pattern, and all of its
\* conditions (boolean AND).
Matches(rule, req) ==
    /\ rule.action = req.action_type
    /\ rule.resource = "*" \/ rule.resource = req.target
    /\ \A i \in 1..Len(rule.conds) : CondHolds(rule.conds[i], req)

\* Compilation of one rule text; a malformed text fails.
Parse(p) ==
    IF p.text.kind \in {"forbid", "permit"}
      THEN [ok |-> TRUE,
            rule |-> [id |-> p.id, effect |-> p.text.kind,
                      action |-> p.text.action,
                      resource |-> p.text.resource,
                      conds |-> p.text.conds]]
      ELSE [ok |-> FALSE, rule |-> <<>>]

RECURSIVE Compile_withDisabled(_)
Compile_withDisabled(list) ==
    IF list = <<>> THEN <<>>
    ELSE IF Parse(Head(list)).ok
           THEN <<Parse(Head(list)).rule>> \o Compile_withDisabled(Tail(list))
           ELSE Compile_withDisabled(Tail(list))

\* Compilation of a fetched list: the enabled policies, in list order; a
\* rule that fails to compile is skipped.
RECURSIVE Compile(_)
Compile(list) ==
    IF list = <<>> THEN <<>>
    ELSE IF Head(list).enabled /\ Parse(Head(list)).ok
           THEN <<Parse(Head(list)).rule>> \o Compile(Tail(list))
           ELSE Compile(Tail(list))

\* The decision function: stops at the first matching forbid rule.
RECURSIVE RunEvaluator(_, _)
RunEvaluator(rules, req) ==
    IF rules = <<>> THEN DefaultAllow
    ELSE IF Head(rules).effect = "forbid" /\ Matches(Head(rules), req)
           THEN Result("DENY", "forbidden by policy", Head(rules).id)
           ELSE RunEvaluator(Tail(rules), req)

\* ---- the cache
EmptyHash == [set |-> FALSE, of |-> {}]

HashOf_withoutEnabled(list) ==
    [set |-> TRUE,
     of |-> {<<list[i].id, list[i].text, TRUE>> : i \in 1..Len(list)}]

\* The PolicySet hash: derived from id, source text and enabled of every
\* member, independent of their order.
HashOf(list) ==
    [set |-> TRUE,
     of |-> {<<list[i].id, list[i].text, list[i].enabled>> :
               i \in 1..Len(list)}]

\* A CompiledEvaluator object: identity, decision rules, and the list it
\* was compiled from.
Build(obj, list) ==
    [obj |-> obj, compiled |-> TRUE, rules |-> Compile(list), src |-> list]

\* The allow-all evaluator installed before anything was compiled.
AllowAll == [obj |-> 0, compiled |-> FALSE, rules |-> <<>>, src |-> <<>>]

\* last_successful_refresh_time of a cache that never refreshed.
NeverRefreshed == 0 - (StaleTtl + 1)

NoEval ==
    [st |-> "none", req |-> Request("", "", "", ""), late |-> FALSE,
     snap |-> AllowAll, res |-> NoEvalResult]

\* A cache that is not constructed.
CacheIdle ==
    /\ hasSource = FALSE
    /\ now = 0
    /\ remote = <<>>
    /\ evaluator = AllowAll
    /\ policy_hash = EmptyHash
    /\ last_refresh = 0
    /\ nextObj = 1
    /\ cpc = [t \in RefreshThreads |-> "idle"]
    /\ fetched = [t \in RefreshThreads |-> <<>>]
    /\ ev = NoEval

\* State after construction: without a source, the allow-all evaluator;
\* with one, after the eager refresh_once(), which succeeded or failed.
CacheInit ==
    /\ hasSource \in BOOLEAN
    /\ now = 0
    /\ remote \in (IF hasSource THEN PolicyLists ELSE {<<>>})
    /\ \E eager \in (IF hasSource THEN {"ok", "failed"} ELSE {"none"}) :
         IF eager = "ok"
           THEN /\ evaluator = Build(1, remote)
                /\ policy_hash = HashOf(remote)
                /\ last_refresh = 0
                /\ nextObj = 2
           ELSE /\ evaluator = AllowAll
                /\ policy_hash = EmptyHash
                /\ last_refresh = (IF hasSource THEN NeverRefreshed ELSE 0)
                /\ nextObj = 1
    /\ cpc = [t \in RefreshThreads |-> "idle"]
    /\ fetched = [t \in RefreshThreads |-> <<>>]
    /\ ev = NoEval

\* Time passes.
tick ==
    /\ now < MaxTime
    /\ now' = now + 1
    /\ UNCHANGED <<hasSource, remote, evaluator, policy_hash, last_refresh,
                   nextObj, cpc, fetched, ev>>
    /\ UNCHANGED <<clientVars, gateVars, wrapVars, fleetVars>>

\* The remote authority changes the policies it serves.
remote_update(list) ==
    /\ hasSource
    /\ list # remote
    /\ remote' = list
    /\ UNCHANGED <<hasSource, now, evaluator, policy_hash, last_refresh,
                   nextObj, cpc, fetched, ev>>
    /\ UNCHANGED <<clientVars, gateVars, wrapVars, fleetVars>>

\* A variant of refresh_once() that does not look for the remote source.
refresh_once_anySource(t) ==
    /\ cpc[t] \in {"idle", "failed"}
    /\ nextObj <= MaxBuilds
    /\ cpc' = [cpc EXCEPT ![t] = "fetch"]
    /\ UNCHANGED <<hasSource, now, remote, evaluator, policy_hash,
                   last_refresh, nextObj, fetched, ev>>
    /\ UNCHANGED <<clientVars, gateVars, wrapVars, fleetVars>>

\* refresh_once() is entered. A thread is "idle" after a refresh_once()
\* that succeeded and "failed" after one whose fetch failed.
refresh_once(t) ==
    /\ hasSource
    /\ cpc[t] \in {"idle", "failed"}
    /\ nextObj <= MaxBuilds
    /\ cpc' = [cpc EXCEPT ![t] = "fetch"]
    /\ UNCHANGED <<hasSource, now, remote, evaluator, policy_hash,
                   last_refresh, nextObj, fetched, ev>>
    /\ UNCHANGED <<clientVars, gateVars, wrapVars, fleetVars>>

FetchFailed_resets(t) ==
    /\ evaluator' = AllowAll
    /\ UNCHANGED <<policy_hash, last_refresh, nextObj>>

\* refresh_once() on fetch failure: logged; nothing stored changes.
FetchFailed(t) ==
    UNCHANGED <<evaluator, policy_hash, last_refresh, nextObj>>

\* The fetch of refresh_once(): it returns the remote list, or fails.
refresh_fetch(t) ==
    /\ cpc[t] = "fetch"
    /\ \E outcome \in {"ok", "failed"} :
         IF outcome = "ok"
           THEN /\ fetched' = [fetched EXCEPT ![t] = remote]
                /\ cpc' = [cpc EXCEPT ![t] = "apply"]
                /\ UNCHANGED <<evaluator, policy_hash, last_refresh, nextObj>>
           ELSE /\ FetchFailed(t)
                /\ cpc' = [cpc EXCEPT ![t] = "failed"]
                /\ UNCHANGED fetched
    /\ UNCHANGED <<hasSource, now, remote, ev>>
    /\ UNCHANGED <<clientVars, gateVars, wrapVars, fleetVars>>

Publish_torn(t) ==
    /\ evaluator' = Build(nextObj, fetched[t])
    /\ UNCHANGED policy_hash
    /\ last_refresh' = now
    /\ nextObj' = nextObj + 1

\* A fresh evaluator compiled from the fetched list replaces the stored
\* evaluator and hash in one step; the refresh time is updated.
Publish(t) ==
    /\ evaluator' = Build(nextObj, fetched[t])
    /\ policy_hash' = HashOf(fetched[t])
    /\ last_refresh' = now
    /\ nextObj' = nextObj + 1

\* refresh_once() after a successful fetch: an unchanged hash only updates
\* the refresh time; otherwise the evaluator is rebuilt.
refresh_apply(t) ==
    /\ cpc[t] = "apply"
    /\ IF HashOf(fetched[t]) = policy_hash
         THEN /\ last_refresh' = now
              /\ UNCHANGED <<evaluator, policy_hash, nextObj>>
         ELSE Publish(t)
    /\ cpc' = [cpc EXCEPT ![t] = "idle"]
    /\ fetched' = [fetched EXCEPT ![t] = <<>>]
    /\ UNCHANGED <<hasSource, now, remote, ev>>
    /\ UNCHANGED <<clientVars, gateVars, wrapVars, fleetVars>>

\* A variant of invalidate() that also drops the evaluator.
invalidate_dropsEvaluator ==
    /\ hasSource
    /\ policy_hash' = EmptyHash
    /\ evaluator' = AllowAll
    /\ UNCHANGED <<hasSource, now, remote, last_refresh, nextObj,
                   cpc, fetched, ev>>
    /\ UNCHANGED <<clientVars, gateVars, wrapVars, fleetVars>>

\* invalidate(): clears the stored hash, not the evaluator.
invalidate ==
    /\ hasSource
    /\ policy_hash' = EmptyHash
    /\ UNCHANGED <<hasSource, now, remote, evaluator, last_refresh, nextObj,
                   cpc, fetched, ev>>
    /\ UNCHANGED <<clientVars, gateVars, wrapVars, fleetVars>>

IsStale_never == FALSE

\* now - last_successful_refresh_time > stale_ttl
IsStale == now - last_refresh > StaleTtl

\* evaluate(context), first part: the staleness test, and the reference to
\* the current evaluator is taken.
evaluate(req) ==
    /\ ev.st \in {"none", "done"}
    /\ ev' = [st |-> "running", req |-> req,
              late |-> now - last_refresh > StaleTtl,
              snap |-> evaluator,
              res |-> IF ~hasSource THEN NoSourceResult
                      ELSE IF IsStale THEN StaleResult
                      ELSE NoEvalResult]
    /\ UNCHANGED <<hasSource, now, remote, evaluator, policy_hash,
                   last_refresh, nextObj, cpc, fetched>>
    /\ UNCHANGED <<clientVars, gateVars, wrapVars, fleetVars>>

\* evaluate(context), second part: unless it already failed open, the
\* request is run through the evaluator taken.
evaluate_run ==
    /\ ev.st = "running"
    /\ ev' = [ev EXCEPT !.st = "done",
                        !.res = IF ev.res = NoEvalResult
                                  THEN RunEvaluator(ev.snap.rules, ev.req)
                                  ELSE ev.res]
    /\ UNCHANGED <<hasSource, now, remote, evaluator, policy_hash,
                   last_refresh, nextObj, cpc, fetched>>
    /\ UNCHANGED <<clientVars, gateVars, wrapVars, fleetVars>>

CacheNext ==
    \/ tick
    \/ \E list \in PolicyLists : remote_update(list)
    \/ \E t \in RefreshThreads : refresh_once(t)
    \/ \E t \in RefreshThreads : refresh_fetch(t)
    \/ \E t \in RefreshThreads : refresh_apply(t)
    \/ invalidate
    \/ \E req \in Requests : evaluate(req)
    \/ evaluate_run

vars == <<clientVars, gateVars, cacheVars, wrapVars, fleetVars>>

\* No with-block has been entered.
WrapIdle ==
    /\ scope = NoScope
    /\ llm = NoInvoke
    /\ exclude_patterns = {}
    /\ net = NoRequest

InitGate == ClientInit /\ GateInit /\ CacheIdle /\ WrapIdle /\ FleetIdle

SpecGate == InitGate /\ [][GateNext]_vars

\* ----------------------------------------------------------------
\* Enforcement and the call gate
\* ----------------------------------------------------------------

\* An _enforce() call of an interceptor with a telemetry client has ended.
EnforceEnded ==
    /\ g.enf \in {"returned", "violation", "error"}
    /\ hasClient[g.i]

\* C3: with a telemetry client attached, an allowed evaluation tracks
\* nothing and raises nothing; a denied one hands exactly one
\* POLICY_VIOLATION event with action, target, reason and the enforcement
\* mode to the client, which enqueues it (unless the client is already
\* shutting down), and raises a violation error exactly under BLOCK, WARN
\* and LOG returning normally.
C3_EnforcementContract ==
    EnforceEnded =>
      IF g.allowed
        THEN g.tracks = 0 /\ g.enf = "returned"
        ELSE /\ g.tracks = 1
             /\ \/ g.dropped
                \/ /\ g.ev \in enq
                   /\ evInfo[g.ev] = ViolationEvent(g.i, g.action,
                                                    g.target, g.reason)
             /\ g.enf = "violation" <=> mode[g.i] = "block"
             /\ mode[g.i] # "block" => g.enf = "returned"

\* A call through an installed gate has ended.
GatedCallEnded == g.st \in {"returned", "violation", "error"} /\ g.i # ""

\* C4: the original runs exactly when enforcement did not raise; a denied
\* call under BLOCK never reaches the original; an allowed call, and a
\* denied call under WARN or LOG, runs the original exactly once with the
\* caller's arguments and returns its result unchanged.
C4_OriginalIffNotBlocked ==
    GatedCallEnded =>
      /\ g.origCalls > 0 <=> g.enf = "returned"
      /\ IF ~g.allowed /\ mode[g.i] = "block"
        THEN g.origCalls = 0
        ELSE /\ g.st = "returned"
             /\ g.origCalls = 1
             /\ g.origArgs = g.args
             /\ g.result = OrigResult(g.args)

\* ---- install() and uninstall()

\* One thread installs, uninstalls and calls through the call sites; the
\* telemetry client, when attached, has no agent id, so the flush that a
\* tracked violation triggers sends nothing.
SiteNext ==
    \/ \E i \in DOMAIN installed : install(i)
    \/ \E i \in DOMAIN installed : uninstall(i)
    \/ \E i \in DOMAIN installed : scope_enter(i)
    \/ \E i \in DOMAIN installed, how \in Endings : scope_exit(i, how)
    \/ \E c \in Calls : gate_call(c)
    \/ \E ans \in CacheAnswers : gate_eval(ans)
    \/ enf_mode
    \/ gate_next
    \/ track_put(GateCaller)
    \/ track_size(GateCaller)
    \/ flush_check(GateCaller)

SpecSite == InitGate /\ [][SiteNext]_vars

\* Two interceptor objects of one integration in WARN mode, each with a
\* policy cache and the telemetry client; nothing installed.
InitPair ==
    /\ ClientInit /\ CacheIdle /\ WrapIdle /\ FleetIdle
    /\ mode = [i \in {"i1", "i2"} |-> "warn"]
    /\ hasClient = [i \in {"i1", "i2"} |-> TRUE]
    /\ hasCache = [i \in {"i1", "i2"} |-> TRUE]
    /\ patchable \in BOOLEAN
    /\ installed = [i \in {"i1", "i2"} |-> FALSE]
    /\ saved = [i \in {"i1", "i2"} |-> NothingSaved]
    /\ callSite = Unpatched
    /\ g = NoCall

SpecPair == InitPair /\ [][SiteNext]_vars

SpecLLM == InitGate /\ [][LLMNext]_vars

\* A network-level interceptor with any set of exclusion patterns.
InitNet ==
    /\ ClientInit /\ GateInit /\ CacheIdle
    /\ scope = NoScope
    /\ llm = NoInvoke
    /\ exclude_patterns \in SUBSET Patterns
    /\ net = NoRequest
    /\ FleetIdle

SpecNet == InitNet /\ [][NetNext]_vars

\* C19: install() succeeds exactly when the interceptor is not installed
\* and raises when it is; uninstall() succeeds exactly when it is installed
\* and raises when it is not; a call that raises leaves the installed flag,
\* the saved implementations and every call site unchanged.
C19_InstallUninstallGuards ==
    [][\A i \in Interceptors :
         /\ install(i) =>
               IF installed[i]
                 THEN /\ raised'[GateCaller] = "install"
                      /\ UNCHANGED <<installed, saved, callSite>>
                 ELSE raised'[GateCaller] = "none"
         /\ uninstall(i) =>
               IF installed[i]
                 THEN raised'[GateCaller] = "none" /\ ~installed'[i]
                 ELSE /\ raised'[GateCaller] = "uninstall"
                      /\ UNCHANGED <<installed, saved, callSite>>]_vars

\* A second install() has raised on an installed interceptor whose patched
\* functions are in place.
C19_Witness ==
    \E i \in Interceptors :
      /\ installed[i]
      /\ raised[GateCaller] = "install"
      /\ \A s \in Sites : callSite[s] = <<i>>

\* The interceptors whose patched function a call through site s runs.
Evaluating(s) == SeqToSet(callSite[s])

\* C20: install() then uninstall() is a round trip on the call sites:
\* install() saves what every site holds, the saved implementations stay
\* while the interceptor is installed, and uninstall() puts them back, so
\* that no site holds the interceptor's patched function any more and a
\* call runs the original without evaluation.
C20_InstallUninstallRoundTrip ==
    [][\A i \in Interceptors :
         /\ (install(i) /\ installed'[i] /\ ~installed[i]) =>
               saved'[i] = callSite
         /\ (installed[i] /\ installed'[i]) => saved'[i] = saved[i]
         /\ (uninstall(i) /\ installed[i]) =>
               /\ callSite' = saved[i]
               /\ \A s \in Sites : i \notin SeqToSet(callSite'[s])
         /\ \A c \in Calls :
               (gate_call(c) /\ i \notin Evaluating(c.site)) =>
                 /\ pc'[GateCaller] = "idle"
                 /\ g'.st = "returned" /\ g'.i = "" /\ g'.origCalls = 1
                 /\ g'.result = OrigResult(c.args)]_vars

\* After install() and uninstall(), a call through each site has run the
\* original ungated.
C20_Witness ==
    \E i \in Interceptors :
      /\ ~installed[i]
      /\ saved[i] = Unpatched
      /\ callSite = Unpatched
      /\ g.st = "returned" /\ g.i = "" /\ g.site = "llm_generate"

\* C22: under BLOCK, when the evaluation result that denies a call names
\* a policy id, the violation error raised to the caller carries that
\* policy id together with the action, target and reason of the call.
C22_ErrorCarriesPolicyId ==
    (/\ g.st = "violation"
     /\ g.policy \notin {"", "none"}) =>
      g.err = [action |-> g.action, target |-> g.target,
               reason |-> g.reason, policy_id |-> g.policy]

\* C21: the scoped-use form installs on entry, and however the guarded
\* block ends (normal return, an exception, the gate's violation error),
\* when the scope exits the interceptor is not installed and every call
\* site holds what it held on entry.
C21_ScopeAlwaysUninstalls ==
    [][\A i \in Interceptors :
         /\ (scope_enter(i) /\ ~installed[i] /\ patchable) =>
               /\ installed'[i]
               /\ \A s \in Sites : Head(callSite'[s]) = i
               /\ scope'.st = "in"
         /\ \A how \in Endings :
               scope_exit(i, how) =>
                 /\ ~installed'[i]
                 /\ callSite' = scope.before
                 /\ scope'.st = "exited" /\ scope'.how = how]_vars

\* A gated call inside the block raised the violation error, and the
\* scope has exited with the interceptor uninstalled.
C21_Witness ==
    /\ scope.st = "exited"
    /\ scope.how = "violation"
    /\ g.st = "violation"
    /\ g.i = scope.i
    /\ ~installed[scope.i]
    /\ callSite = Unpatched

\* ---- wrapped model invocation

\* C23: a wrapped model invocation returns its response to the caller only
\* after every tool-use target found in the response has been evaluated
\* and enforced, each one by itself and in order, in every enforcement
\* mode and whatever was decided for the other targets; under BLOCK a
\* response with a denied target is not returned at all.
C23_EveryToolUseEnforced ==
    /\ (llm.st = "returned" /\ llm.answered) =>
          /\ Len(llm.seen) = Len(llm.response)
          /\ \A k \in 1..Len(llm.response) :
                llm.seen[k].target = llm.response[k]
          /\ llm.enforced = llm.response
          /\ mode[Wrapper] = "block" =>
                \A k \in 1..Len(llm.seen) : llm.seen[k].allowed
    /\ (llm.st = "violation" /\ llm.seen # <<>>) =>
          /\ mode[Wrapper] = "block"
          /\ ~llm.seen[Len(llm.seen)].allowed
          /\ \A k \in 1..Len(llm.seen) :
                /\ llm.seen[k].target = llm.response[k]
                /\ llm.enforced[k] = llm.response[k]

\* ---- network-level interception

\* The URL belongs to the telemetry backend of the attached client, or an
\* exclusion pattern matches it.
Exempt(url) ==
    \/ hasClient[Wrapper] /\ IsPrefix(TelemetryBase, url)
    \/ \E pat \in exclude_patterns : pat \in SeqToSet(url)

\* C24: a request to the telemetry backend, or to a URL that an exclusion
\* pattern matches, is never evaluated or blocked: it goes to the original
\* send without the policy cache being consulted, whatever the cache would
\* answer and in every mode.
C24_ExemptNeverEvaluated ==
    (net.st # "none" /\ Exempt(net.url)) =>
      /\ net.st = "returned"
      /\ ~net.evaluated
      /\ net.origCalls = 1

\* A request to the telemetry backend has gone through under BLOCK with a
\* policy cache attached, while another URL can be denied.
C24_Witness ==
    /\ net.st = "returned"
    /\ IsPrefix(TelemetryBase, net.url)
    /\ hasClient[Wrapper] /\ hasCache[Wrapper]
    /\ mode[Wrapper] = "block"
    /\ ~net.evaluated

\* The telemetry client alone: no interceptor is constructed or used.
GateIdle ==
    /\ mode = [i \in Interceptors |-> "log"]
    /\ hasClient = [i \in Interceptors |-> FALSE]
    /\ hasCache = [i \in Interceptors |-> FALSE]
    /\ patchable = TRUE
    /\ installed = [i \in Interceptors |-> FALSE]
    /\ saved = [i \in Interceptors |-> NothingSaved]
    /\ callSite = Unpatched
    /\ g = NoCall

InitClient ==
    ClientInit /\ GateIdle /\ CacheIdle /\ WrapIdle /\ FleetIdle

SpecClient == InitClient /\ [][ClientNext]_vars

\* ---- construction, registration, heartbeat

\* The constructor has just been called: nothing is configured, no thread
\* runs.
CtorStart ==
    /\ queue = <<>>
    /\ agent_id = FALSE
    /\ shutdown = FALSE
    /\ httpClosed = FALSE
    /\ pc = [t \in Threads |->
               IF t = Flusher THEN "unstarted"
               ELSE IF t = SoloCaller THEN "ctor_key" ELSE "idle"]
    /\ ret = [t \in Threads |-> "none"]
    /\ batch = [t \in Threads |-> <<>>]
    /\ cur = [t \in Threads |-> 0]
    /\ tret = [t \in Threads |-> "none"]
    /\ evInfo = [e \in EventIds |-> NoEvent]
    /\ raised = [t \in Threads |-> "none"]
    /\ enq = {}
    /\ delivered = [e \in EventIds |-> 0]
    /\ nextEv = 1
    /\ hist = [only |-> "start", ok |-> TRUE, atClose |-> "none"]
    /\ conf = NoConf
    /\ log = {}
    /\ reg = "none"
    /\ fleet_agent_id = FALSE
    /\ hb = NoBeat

\* Any key, any auto_register argument and environment variable; the other
\* arguments are not passed.
InitFleet ==
    /\ CtorStart /\ GateIdle /\ CacheIdle /\ WrapIdle
    /\ \E k \in KeyArgs, a \in AutoArgs :
         args = [PlainArgs EXCEPT !.api_key = k, !.auto_register = a]
    /\ \E v \in AutoVars : env = [EmptyEnv EXCEPT !.auto_register = v]

SpecFleet == InitFleet /\ [][FleetNext]_vars

\* TruseraClient("tsk_...", auto_register=True) in an empty environment.
InitLife ==
    /\ CtorStart /\ GateIdle /\ CacheIdle /\ WrapIdle
    /\ args = [PlainArgs EXCEPT !.auto_register = Arg(TRUE, TRUE)]
    /\ env = EmptyEnv

SpecLife == InitLife /\ [][LifeNext]_vars

\* The same under the scheduling of the two daemon threads: a thread that
\* can take a step takes it (a sleep, a wait and a request with a timeout
\* all end).
SpecLifeFair ==
    /\ SpecLife
    /\ WF_vars(loop_top)
    /\ WF_vars(loop_wake)
    /\ WF_vars(flush_check(Flusher))
    /\ WF_vars(flush_drain(Flusher))
    /\ WF_vars(flush_post(Flusher))
    /\ WF_vars(flush_requeue(Flusher))
    /\ WF_vars(hb_top)
    /\ WF_vars(hb_wake)
    /\ WF_vars(\E o \in PostOutcomes : hb_post(o))

\* Any arguments in any environment.
InitConfig ==
    /\ CtorStart /\ GateIdle /\ CacheIdle /\ WrapIdle
    /\ args \in [api_key : KeyArgs, auto_register : AutoArgs,
                  heartbeat_interval : BeatArgs, agent_name : TextArgs,
                  agent_type : TextArgs, environment : TextArgs]
    /\ env \in [auto_register : AutoVars, heartbeat_interval : BeatVars,
                 agent_name : TextVars, agent_type : TextVars,
                 environment : TextVars]

SpecConfig == InitConfig /\ [][ConfigNext]_vars

\* ----------------------------------------------------------------
\* Policy cache claims
\* ----------------------------------------------------------------

\* (id, source text, enabled) membership of a policy list.
Membership(list) ==
    {<<list[i].id, list[i].text, list[i].enabled>> : i \in 1..Len(list)}

\* An evaluate() of a cache with a remote source has returned.
EvaluateDone == ev.st = "done" /\ hasSource

\* C5: for a cache with a remote source, an evaluate() made when the time
\* since the last successful refresh exceeded stale_ttl returns ALLOW with
\* the staleness reason, whatever the evaluator holds; made within
\* stale_ttl it returns the decision of the compiled evaluator.
C5_StaleFailsOpen ==
    EvaluateDone =>
      IF ev.late
        THEN ev.res.decision = "ALLOW" /\ ev.res.reason = StaleResult.reason
        ELSE ev.res = RunEvaluator(ev.snap.rules, ev.req)

\* A request the compiled evaluator denies was allowed because of age.
C5_Witness ==
    /\ EvaluateDone
    /\ ev.late
    /\ ev.snap.compiled
    /\ RunEvaluator(ev.snap.rules, ev.req).decision = "DENY"
    /\ ev.res.decision = "ALLOW"

\* What evaluate() answers to a request in the current state.
Decide(req) ==
    IF now - last_refresh > StaleTtl THEN StaleResult
    ELSE RunEvaluator(evaluator.rules, req)

\* C6: a refresh_once() whose fetch fails returns normally and leaves the
\* evaluator, the stored hash and last_successful_refresh_time unchanged,
\* so what evaluate() answers to every request is what it answered before
\* the failure.
C6_FailedFetchKeepsCache ==
    [][\A t \in RefreshThreads :
         (cpc[t] = "fetch" /\ cpc'[t] \notin {"fetch", "apply"}) =>
           /\ cpc'[t] = "failed"
           /\ evaluator' = evaluator
           /\ policy_hash' = policy_hash
           /\ last_refresh' = last_refresh
           /\ \A req \in Requests : Decide(req)' = Decide(req)]_vars

\* After a failed refresh a request is still denied by the evaluator
\* compiled before the failure.
C6_Witness ==
    /\ \E t \in RefreshThreads : cpc[t] = "failed"
    /\ EvaluateDone
    /\ ~ev.late
    /\ ev.snap = evaluator
    /\ evaluator.compiled
    /\ ev.res.decision = "DENY"

\* The refresh_once() of thread t completes after a successful fetch.
Applies(t) == cpc[t] = "apply" /\ cpc'[t] # "apply"

Kept == evaluator' = evaluator /\ policy_hash' = policy_hash

Replaced(t) ==
    /\ evaluator'.obj # evaluator.obj
    /\ evaluator'.src = fetched[t]
    /\ policy_hash' # policy_hash
    /\ policy_hash'.set
    /\ policy_hash'.of = Membership(fetched[t])

\* C7 as stated: a successful refresh fetching the same membership as the
\* one last compiled, in any order, keeps the identical evaluator object
\* and the hash and only advances the refresh time; one fetching a
\* different membership replaces the evaluator and the hash.
C7_SameAsLastCompiled ==
    [][\A t \in RefreshThreads :
         Applies(t) =>
           /\ last_refresh' = now
           /\ IF /\ evaluator.compiled
                 /\ Membership(fetched[t]) = Membership(evaluator.src)
                THEN Kept
                ELSE Replaced(t)]_vars

\* C7: a successful refresh fetching the membership the stored hash
\* records (the one last compiled, in any order, with no invalidate()
\* since) keeps the identical evaluator object and the hash and only
\* advances the refresh time; one fetching a different membership, or
\* running after invalidate() cleared the hash, replaces the evaluator
\* and the hash.
C7_SameAsStoredHash ==
    [][\A t \in RefreshThreads :
         Applies(t) =>
           /\ last_refresh' = now
           /\ IF /\ policy_hash # EmptyHash
                 /\ Membership(fetched[t]) = Membership(evaluator.src)
                THEN Kept
                ELSE Replaced(t)]_vars

\* The evaluator built at construction is still the stored object after a
\* later successful refresh, and the remote serves the compiled policies
\* in another order.
C7_Witness ==
    /\ evaluator.obj = 1
    /\ policy_hash # EmptyHash
    /\ last_refresh = now
    /\ now > 0
    /\ remote # evaluator.src
    /\ Membership(remote) = Membership(evaluator.src)

\* An enabled forbid rule whose action type, resource and conditions all
\* match the request.
Forbids(p, req) ==
    /\ p.enabled
    /\ p.text.kind = "forbid"
    /\ p.text.action = req.action_type
    /\ p.text.resource \in {"*", req.target}
    /\ \A i \in 1..Len(p.text.conds) :
         \/ p.text.conds[i].op = "==" /\
              req[p.text.conds[i].attr] = p.text.conds[i].lit
         \/ p.text.conds[i].op = "!=" /\
              req[p.text.conds[i].attr] # p.text.conds[i].lit

\* C8: a fresh cache answers DENY exactly when some enabled forbid rule of
\* the policy set it compiled matches the request in action type, resource
\* and every condition, and ALLOW otherwise; a disabled rule never denies.
C8_DenyIffEnabledForbidMatches ==
    (EvaluateDone /\ ~ev.late) =>
      /\ ev.res.decision \in {"ALLOW", "DENY"}
      /\ ev.res.decision = "DENY" <=>
           \E i \in 1..Len(ev.snap.src) : Forbids(ev.snap.src[i], ev.req)

\* A request denied by the forbid rule that follows a malformed and a
\* permit rule.
C8_Witness ==
    /\ EvaluateDone
    /\ ~ev.late
    /\ ev.res.decision = "DENY"
    /\ ev.res.policy_id = "p3"

\* A whole evaluator: its rules are the compilation of one policy list.
Whole(e) == e.rules = Compile(e.src)

C26_NoSourceAllowsAll ==
    ~hasSource =>
      /\ \A t \in RefreshThreads : cpc[t] = "idle"
      /\ evaluator = AllowAll
      /\ nextObj = 1
      /\ ev.st = "done" => ev.res.decision = "ALLOW"
      /\ ev.st = "running" => ev.res = NoSourceResult

\* A cache with no remote source has answered ALLOW at a time when a cache
\* with a source would be stale.
C26_Witness ==
    /\ ~hasSource
    /\ ev.st = "done"
    /\ ev.late
    /\ ev.res = NoSourceResult

InitCache ==
    ClientInit /\ GateIdle /\ CacheInit /\ WrapIdle /\ FleetIdle

SpecCache == InitCache /\ [][CacheNext]_vars


\* ---- construction, registration, heartbeat

\* The positions of __init__.
CtorPcs == {"ctor_key", "ctor_config", "ctor_register", "ctor_threads"}

\* The constructor has returned a client.
Constructed == pc[SoloCaller] \notin CtorPcs \cup {"ctor_failed"}

\* C27: whatever the outcome of the fleet registration request (an id, no
\* id, an HTTP error, any other exception), the constructor does not raise
\* and starts the flush loop; the fleet identity is stored, and the
\* heartbeat loop started, exactly when the registration returned an id.
C27_RegistrationNeverBlocksStartup ==
    /\ reg # "none" => pc[SoloCaller] # "ctor_failed"
    /\ fleet_agent_id <=> reg = "id"
    /\ Constructed =>
         /\ pc[Flusher] # "unstarted"
         /\ hb.pc # "unstarted" <=> reg = "id"
    /\ ~Constructed => pc[Flusher] = "unstarted" /\ hb.pc = "unstarted"

\* A registration that ended in an exception other than an HTTP error, and
\* a client whose flush thread runs without a heartbeat thread.
C27_Witness ==
    /\ reg = "other"
    /\ Constructed
    /\ pc[Flusher] = "sleeping"
    /\ hb.pc = "unstarted"

\* C28: a heartbeat that fails is only logged: the step that fails takes
\* the loop back to its top and touches nothing of the client; a request is
\* made only after an interval of its own has elapsed; the loop ends only
\* once shutdown is signalled.
C28_HeartbeatFailureOnlyLogged ==
    [][ /\ hb.failed' > hb.failed =>
             /\ hb.pc' = "top"
             /\ hb.ticks' = hb.ticks
             /\ UNCHANGED <<clientVars, fleet_agent_id>>
        /\ hb.attempts' > hb.attempts => hb.ticks = hb.attempts + 1
        /\ hb.pc' \notin {"unstarted", "top", "wait", "post"}
             => hb.pc' = "exited" /\ shutdown'
      ]_vars

\* Two heartbeats failed: the second was attempted one interval after the
\* first had failed.
C28_Witness ==
    /\ hb.failed >= 2
    /\ hb.ticks = hb.attempts
    /\ hb.pc = "wait"
    /\ ~shutdown

C30_BadKeyFailsConstruction ==
    (~HasPrefix(args.api_key) /\ pc[SoloCaller] # "ctor_key") =>
        /\ pc[SoloCaller] = "ctor_failed"
        /\ pc[Flusher] = "unstarted"
        /\ hb.pc = "unstarted"

\* C30: with a key that lacks the prefix the constructor logs a warning
\* and goes on: it does not raise, and the client it returns has its flush
\* thread started.
C30_BadKeyOnlyWarns ==
    (~HasPrefix(args.api_key) /\ pc[SoloCaller] # "ctor_key") =>
        /\ "api_key" \in log
        /\ pc[SoloCaller] # "ctor_failed"
        /\ raised[SoloCaller] = "none"
        /\ Constructed => pc[Flusher] # "unstarted"

\* A client built with a key that lacks the prefix, its flush thread
\* waiting.
C30_Witness ==
    /\ ~HasPrefix(args.api_key)
    /\ "api_key" \in log
    /\ Constructed
    /\ pc[Flusher] = "sleeping"

\* ---- the life of a client: shutdown, close(), the agent id

\* Both background threads have ended.
Stopped ==
    /\ pc[Flusher] \in {"exited", "dead"}
    /\ hb.pc \in {"unstarted", "exited"}

\* C32: once the shutdown signal is set, a loop that is at one of its
\* tests of the signal (before or after its sleep) starts no further flush
\* and no further heartbeat request, and both loops eventually end.
C32_LoopsStopOnShutdown ==
    /\ [][ /\ (shutdown /\ pc[Flusher] \in {"loop_top", "sleeping", "exited"})
                => pc'[Flusher] \in {"loop_top", "sleeping", "exited"}
           /\ (shutdown /\ hb.pc \in {"top", "wait", "exited"})
                => hb.pc' \in {"top", "wait", "exited"}
                   /\ hb.attempts' = hb.attempts
         ]_vars
    /\ shutdown ~> Stopped

\* After a heartbeat and a delivered batch, close() was called and both
\* loops have left through their tests of the signal.
C32_Witness ==
    /\ shutdown
    /\ pc[Flusher] = "exited"
    /\ hb.pc = "exited"
    /\ hb.attempts >= 1
    /\ \E e \in EventIds : delivered[e] > 0

\* ---- two interceptors on one call site

\* C36: when no interceptor is installed (any more), every call site holds
\* its original implementation, so no call is evaluated.
C36_AllUninstalledRestores ==
    (\A i \in DOMAIN installed : ~installed[i]) => callSite = Unpatched

\* C34: close() sets the shutdown signal first, then waits for the flush
\* thread and the heartbeat thread (each has ended, or is held in a request
\* and the wait has run out), then enters its final flush, once, and
\* releases the network client only when that flush has returned; the
\* final flush sends no request on a released client.
C34_CloseOrder ==
    /\ [](\A t \in Threads : (pc[t] = "post" /\ ret[t] = "close")
                               => ~httpClosed)
    /\ [][ /\ shutdown => shutdown'
           /\ (pc'[SoloCaller] = "close_set" /\ pc[SoloCaller] # "close_set")
                => ~shutdown /\ ~httpClosed
           /\ (shutdown' /\ ~shutdown)
                => pc[SoloCaller] = "close_set"
                   /\ pc'[SoloCaller] = "close_join"
           /\ (ret'[SoloCaller] = "close" /\ ret[SoloCaller] # "close")
                => /\ pc[SoloCaller] = "close_join"
                   /\ shutdown /\ ~httpClosed
                   /\ pc[Flusher] \in {"exited", "dead", "post"}
                   /\ hb.pc \in {"unstarted", "exited", "post"}
           /\ (pc'[SoloCaller] = "close_release"
               /\ pc[SoloCaller] # "close_release")
                => ret[SoloCaller] = "close" /\ ret'[SoloCaller] = "none"
           /\ (httpClosed' /\ ~httpClosed)
                => /\ pc[SoloCaller] = "close_release"
                   /\ pc'[SoloCaller] = "idle"
                   /\ shutdown
         ]_vars

\* close() has returned: both threads were joined after a heartbeat had
\* been sent, the final flush ran with the agent id set, and the network
\* client is released.
C34_Witness ==
    /\ httpClosed
    /\ pc[SoloCaller] = "idle"
    /\ hist.atClose = "agent"
    /\ pc[Flusher] = "exited"
    /\ hb.pc = "exited" /\ hb.attempts >= 1
    /\ enq # {} /\ queue = <<>>

\* C38: the step that stores the fleet identity leaves the agent id unset;
\* the agent id becomes set only by a call of set_agent_id() or
\* register_agent() that returns normally; and as long as it is unset no
\* flush drains or sends anything: events only accumulate in the queue.
C38_FleetIdIsNotAgentId ==
    [][ /\ fleet_agent_id' # fleet_agent_id
             => ~agent_id /\ ~agent_id' /\ ctor_register("id")
        /\ (agent_id' /\ ~agent_id)
             => /\ Constructed
                /\ pc[SoloCaller] = "idle" /\ pc' = pc
                /\ raised'[SoloCaller] = "none"
        /\ ~agent_id'
             => /\ delivered' = delivered
                /\ \A t \in Threads : pc'[t] \notin {"drain", "post", "requeue"}
                /\ Len(queue') >= Len(queue)
                /\ enq' = SeqToSet(queue')
      ]_vars

\* A registered client with a heartbeat sent and no agent id: the tracked
\* events, a batch of them, wait in the queue after the flush that track()
\* called and a turn of the flush loop.
C38_Witness ==
    /\ reg = "id" /\ fleet_agent_id
    /\ ~agent_id
    /\ hb.attempts >= 1
    /\ Len(queue) = BatchSize
    /\ pc[SoloCaller] = "idle"
    /\ pc[Flusher] = "loop_top"
    /\ hist.only = "any"

\* ---- wrapped model invocation: telemetry and order

\* An LLM_INVOKE event is handed to track() in this step.
InvokeTracked(e) ==
    evInfo'[e] # evInfo[e] /\ evInfo'[e].type = "LLM_INVOKE"

\* C39: the payload of an LLM_INVOKE event has a messages entry only when
\* a redactor is configured and the call has messages, and the entry is
\* then what the redactor returns for the extracted texts, so that no
\* text with personal data is in it; without a redactor there is no
\* entry; the original call is given exactly the caller's arguments.
C39_OnlyRedactedMessagesLogged ==
    /\ [](llm.called => llm.origArgs = llm.messages)
    /\ [][\A e \in EventIds : InvokeTracked(e) =>
            /\ evInfo'[e].hasMessages <=>
                  llm'.redactor /\ llm'.messages # <<>>
            /\ IF evInfo'[e].hasMessages
                 THEN evInfo'[e].messages =
                        Redact(extract_message_texts(llm'.messages))
                 ELSE evInfo'[e].messages = <<>>
            /\ "write to a@b.c" \notin SeqToSet(evInfo'[e].messages)
            /\ llm'.origArgs = llm'.messages]_vars

\* A call with an e-mail address in its second message went through an
\* interceptor with a redactor: the original was given the address, the
\* tracked event holds the tag in its place.
C39_Witness ==
    /\ llm.called /\ llm.logged /\ llm.redactor
    /\ Len(llm.origArgs) = 2
    /\ llm.origArgs[2].content = "write to a@b.c"
    /\ \E e \in EventIds :
         /\ evInfo[e].type = "LLM_INVOKE"
         /\ evInfo[e].hasMessages
         /\ evInfo[e].messages = <<"hello", "write to [REDACTED_EMAIL]">>

\* C40: a wrapped model call gates the model call, then runs the
\* original, then tracks LLM_INVOKE, then checks the tool-use targets of
\* the response: the original is called only from the point after the
\* gate and never for a call denied under BLOCK, which tracks no
\* LLM_INVOKE event either; LLM_INVOKE is tracked only in the step in
\* which the original gave its response, before any target is evaluated;
\* targets are evaluated only after the tracking has ended.
C40_WrapperOrder ==
    /\ [](/\ llm.called => llm.allowed \/ mode[Wrapper] # "block"
          /\ llm.answered => llm.called
          /\ llm.logged => llm.answered
          /\ llm.seen # <<>> =>
                llm.answered /\ llm.logged = hasClient[Wrapper]
          /\ (llm.st = "violation" /\ llm.seen = <<>>) =>
                /\ ~llm.allowed /\ mode[Wrapper] = "block"
                /\ ~llm.called /\ ~llm.logged)
    /\ [][/\ (llm'.called /\ ~llm.called) =>
                pc[GateCaller] = "llm_create" /\ llm.st = "running"
          /\ \A e \in EventIds : InvokeTracked(e) =>
                /\ llm'.answered /\ ~llm.answered
                /\ llm'.seen = <<>>
          /\ Len(llm'.seen) > Len(llm.seen) =>
                /\ llm.answered
                /\ pc[GateCaller] = "llm_tools"]_vars

=============================================================================
